---- MODULE Spec2Model ----
(***************************************************************************)
(* Cash-flow projection and returns engine of the CRE DCF valuation tool   *)
(* (src/CRE_underwriting_project_DEPLOYMENT.py).                           *)
(*                                                                         *)
(* Numbers.  The script computes in Python floats.  A number is modelled   *)
(* as a decimal floating-point value <<m, e>> standing for m * 10^e, with  *)
(* an 8-digit mantissa (10^7 <= |m| < 10^8, or m = 0); every operation     *)
(* rounds its result to 8 digits, as the float operation rounds its        *)
(* result to 53 bits.  Three reserved exponents stand for the values that  *)
(* are not finite numbers: NaN and +/-Inf (the results numpy gives for a   *)
(* division by zero) and RAISED (the Python operation raised               *)
(* ZeroDivisionError; it propagates through every later operation, as the  *)
(* exception propagates through the expression).                           *)
(***************************************************************************)
EXTENDS Integers, Sequences, FiniteSets, TLC

\* ------------------------------------------------------------------------
\* Decimal floating point
\* ------------------------------------------------------------------------
E4 == 10000
E7 == 10000000
E8 == 100000000

SpecialExp == 900
NaN == <<0, 900>>
PInf == <<1, 900>>
NInf == <<-1, 900>>
RAISED == <<0, 901>>

IsRaised(a) == a[2] = 901
IsFinite(a) == a[2] < SpecialExp
IsNaN(a) == a = NaN
IsInf(a) == a = PInf \/ a = NInf

Abs(n) == IF n < 0 THEN -n ELSE n
Sgn(n) == IF n < 0 THEN -1 ELSE IF n > 0 THEN 1 ELSE 0

RECURSIVE Pow10(_)
Pow10(k) == IF k <= 0 THEN 1 ELSE 10 * Pow10(k - 1)

\* the float nearest to m * 10^e: the mantissa rounded to 8 digits
RECURSIVE Norm(_, _)
Norm(m, e) ==
    IF m = 0 THEN <<0, 0>>
    ELSE IF Abs(m) >= 10 * E8 THEN Norm(Sgn(m) * (Abs(m) \div 10), e + 1)
    ELSE IF Abs(m) >= E8 THEN Norm(Sgn(m) * ((Abs(m) + 5) \div 10), e + 1)
    ELSE IF Abs(m) < E4 THEN Norm(m * E4, e - 4)
    ELSE IF Abs(m) < E7 THEN Norm(m * 10, e - 1)
    ELSE <<m, e>>

\* an integer input of the form, or an integer literal of the code
F(n) == Norm(n, 0)
\* a decimal input or literal n / 10^d (5.5 is Dec(55, 1))
Dec(n, d) == Norm(n, -d)

Zero == <<0, 0>>
One == F(1)
Hundred == F(100)
Twelve == F(12)

IsZero(a) == IsFinite(a) /\ a[1] = 0

FNeg(a) == IF IsRaised(a) \/ IsNaN(a) THEN a
           ELSE IF IsInf(a) THEN <<-a[1], 900>>
           ELSE <<-a[1], a[2]>>

\* mantissa m of exponent e brought to the (larger) exponent t
Shift(m, e, t) == IF t - e >= 9 THEN 0 ELSE Sgn(m) * (Abs(m) \div Pow10(t - e))

FAdd(a, b) ==
    IF IsRaised(a) \/ IsRaised(b) THEN RAISED
    ELSE IF IsNaN(a) \/ IsNaN(b) THEN NaN
    ELSE IF IsInf(a) /\ IsInf(b) THEN (IF a = b THEN a ELSE NaN)
    ELSE IF IsInf(a) THEN a
    ELSE IF IsInf(b) THEN b
    ELSE IF a[1] = 0 THEN b
    ELSE IF b[1] = 0 THEN a
    ELSE LET hi == (IF a[2] >= b[2] THEN a[2] ELSE b[2])
             \* one guard digit below the larger exponent
             t == hi - 1
             ma == IF a[2] = hi THEN a[1] * 10 ELSE Shift(a[1], a[2], t)
             mb == IF b[2] = hi THEN b[1] * 10 ELSE Shift(b[1], b[2], t)
         IN  Norm(ma + mb, t)

FSub(a, b) == FAdd(a, FNeg(b))

FMul(a, b) ==
    IF IsRaised(a) \/ IsRaised(b) THEN RAISED
    ELSE IF IsNaN(a) \/ IsNaN(b) THEN NaN
    ELSE IF IsInf(a) \/ IsInf(b)
         THEN (IF a[1] = 0 \/ b[1] = 0 THEN NaN
               ELSE <<Sgn(a[1]) * Sgn(b[1]), 900>>)
    ELSE IF a[1] = 0 \/ b[1] = 0 THEN Zero
    ELSE LET x == Abs(a[1])
             y == Abs(b[1])
             x1 == x \div E4
             x0 == x % E4
             y1 == y \div E4
             y0 == y % E4
             t == x1 * y0 + x0 * y1 + ((x0 * y0) \div E4)
             \* floor(x * y / 10^7)
             p == x1 * y1 * 10 + (t \div 1000)
         IN  Norm(Sgn(a[1]) * Sgn(b[1]) * p, a[2] + b[2] + 7)

\* long division: k more digits of r / d appended to q
RECURSIVE LDiv(_, _, _, _)
LDiv(q, r, d, k) ==
    IF k = 0 THEN q
    ELSE LDiv(q * 10 + ((r * 10) \div d), (r * 10) % d, d, k - 1)

\* the quotient of two finite numbers, the divisor not zero
FQuot(a, b) ==
    IF a[1] = 0 THEN Zero
    ELSE LET x == Abs(a[1])
             y == Abs(b[1])
             q == LDiv(x \div y, x % y, y, 8)
         IN  Norm(Sgn(a[1]) * Sgn(b[1]) * q, a[2] - b[2] - 8)

\* a / b on Python floats and ints: a zero divisor raises ZeroDivisionError
FDiv(a, b) ==
    IF IsRaised(a) \/ IsRaised(b) THEN RAISED
    ELSE IF IsNaN(a) \/ IsNaN(b) THEN NaN
    ELSE IF IsInf(a) THEN (IF IsInf(b) THEN NaN
                           ELSE IF b[1] < 0 THEN FNeg(a) ELSE a)
    ELSE IF IsInf(b) THEN Zero
    ELSE IF b[1] = 0 THEN RAISED
    ELSE FQuot(a, b)

\* a / b when an operand is a numpy scalar or array: a zero divisor gives
\* inf or nan (with a warning), it does not raise
NDiv(a, b) ==
    IF IsFinite(a) /\ IsFinite(b) /\ b[1] = 0
    THEN (IF a[1] = 0 THEN NaN ELSE IF a[1] > 0 THEN PInf ELSE NInf)
    ELSE FDiv(a, b)

Square(a) == FMul(a, a)

\* a ** n for an integer n >= 0
RECURSIVE FPow(_, _)
FPow(a, n) ==
    IF n <= 0 THEN One
    ELSE IF n = 1 THEN a
    ELSE IF n % 2 = 0 THEN Square(FPow(a, n \div 2))
    ELSE FMul(Square(FPow(a, n \div 2)), a)

\* the sign of a finite number or of an infinity
FSign(a) == Sgn(a[1])

\* comparisons of Python: any comparison with nan is false
FLt(a, b) == ~IsNaN(a) /\ ~IsNaN(b) /\ ~IsRaised(a) /\ ~IsRaised(b)
             /\ a # b /\ FSign(FSub(a, b)) < 0
FLe(a, b) == ~IsNaN(a) /\ ~IsNaN(b) /\ ~IsRaised(a) /\ ~IsRaised(b)
             /\ (a = b \/ FSign(FSub(a, b)) < 0)
FGt(a, b) == FLt(b, a)
FGe(a, b) == FLe(b, a)

FAbs(a) == IF IsFinite(a) \/ IsInf(a) THEN <<Abs(a[1]), a[2]>> ELSE a
FMax(a, b) == IF FGe(a, b) THEN a ELSE b

\* ------------------------------------------------------------------------
\* Loan arithmetic
\* ------------------------------------------------------------------------

\* loan_amount * (monthly_rate * growth) / (growth - 1)
PaymentAt(loan_amount, monthly_rate, growth) ==
    FDiv(FMul(loan_amount, FMul(monthly_rate, growth)), FSub(growth, One))

\* loan_amount * (monthly_rate * (1 + monthly_rate)**n) / ((1 + monthly_rate)**n - 1)
AnnuityPayment(loan_amount, monthly_rate, n) ==
    PaymentAt(loan_amount, monthly_rate, FPow(FAdd(One, monthly_rate), n))

calculate_debt_service(year, loan_amount, interest_rate, amortization, io_period) ==
    IF year <= io_period \/ IsZero(loan_amount)
    THEN FMul(loan_amount, FDiv(interest_rate, Hundred))
    ELSE LET monthly_rate == FDiv(FDiv(interest_rate, Hundred), Twelve)
             remaining_payments == (amortization - io_period) * 12
         IN  IF remaining_payments <= 0 THEN Zero
             ELSE FMul(AnnuityPayment(loan_amount, monthly_rate, remaining_payments), Twelve)

\* monthly_pmt * (growth - 1) / (monthly_rate * growth)
BalanceAt(monthly_pmt, monthly_rate, growth) ==
    FDiv(FMul(monthly_pmt, FSub(growth, One)), FMul(monthly_rate, growth))

RemainingBalanceAt(loan_amount, monthly_rate, total_pmts, remaining_pmts) ==
    IF remaining_pmts <= 0 THEN Zero
    ELSE BalanceAt(AnnuityPayment(loan_amount, monthly_rate, total_pmts), monthly_rate,
                   FPow(FAdd(One, monthly_rate), remaining_pmts))

calc_remaining_balance(loan_amount, interest_rate, amortization, io_period, holding_period) ==
    IF holding_period <= io_period \/ IsZero(loan_amount)
    THEN loan_amount
    ELSE RemainingBalanceAt(loan_amount, FDiv(FDiv(interest_rate, Hundred), Twelve),
                            (amortization - io_period) * 12,
                            (amortization - holding_period) * 12)

\* the monthly steps of one amortizing year: <<temp_balance, interest_expense,
\* principal_paid_this_year>> after `months` more months
RECURSIVE MonthLoop(_, _, _, _, _, _)
MonthLoop(temp_balance, interest_expense, principal_paid, monthly_payment, monthly_rate, months) ==
    IF months = 0 THEN <<temp_balance, interest_expense, principal_paid>>
    ELSE LET monthly_interest == FMul(temp_balance, monthly_rate)
             monthly_principal == FSub(monthly_payment, monthly_interest)
             next_interest == FAdd(interest_expense, monthly_interest)
             next_principal == FAdd(principal_paid, monthly_principal)
             next_balance == FSub(temp_balance, monthly_principal)
         IN  IF IsRaised(next_balance) \/ IsRaised(next_interest) \/ IsRaised(next_principal)
             THEN <<RAISED, RAISED, RAISED>>
             ELSE MonthLoop(next_balance, next_interest, next_principal,
                            monthly_payment, monthly_rate, months - 1)

\* ------------------------------------------------------------------------
\* Returns arithmetic (numpy_financial)
\* ------------------------------------------------------------------------
RECURSIVE FSum(_, _)
\* sum(...) of Python: left to right from `acc`
FSum(acc, seq) == IF seq = <<>> THEN acc ELSE FSum(FAdd(acc, Head(seq)), Tail(seq))

AllFinite(seq) == \A k \in 1..Len(seq) : IsFinite(seq[k])

\* npf.npv(rate, values): sum of values[t] / (1 + rate)**t, t = 0, 1, ...
RECURSIVE NpvFrom(_, _, _, _)
NpvFrom(acc, rate, values, t) ==
    IF t > Len(values) THEN acc
    ELSE NpvFrom(FAdd(acc, NDiv(values[t], FPow(FAdd(One, rate), t - 1))), rate, values, t + 1)

npf_npv(rate, values) == NpvFrom(Zero, rate, values, 1)

\* the polynomial sum of values[t] * x**t (x = 1 / (1 + rate)) whose roots
\* npf.irr looks for, by Horner's rule
RECURSIVE Horner(_, _, _, _)
Horner(acc, x, values, k) ==
    IF k = 0 THEN acc ELSE Horner(FAdd(FMul(acc, x), values[k]), x, values, k - 1)

Poly(x, values) == Horner(Zero, x, values, Len(values))

IrrSteps == 14
IrrLo == Dec(1, 2)
IrrHi == F(8)

RECURSIVE Bisect(_, _, _, _, _)
Bisect(lo, hi, slo, values, k) ==
    IF k = 0 THEN FDiv(FAdd(lo, hi), F(2))
    ELSE LET mid == FDiv(FAdd(lo, hi), F(2))
             smid == FSign(Poly(mid, values))
         IN  IF smid = 0 THEN mid
             ELSE IF smid = slo THEN Bisect(mid, hi, slo, values, k - 1)
             ELSE Bisect(lo, mid, slo, values, k - 1)

\* npf.irr(values): the rate 1/x - 1 at a positive real root x of the
\* polynomial; nan when there is none; a non-finite entry makes the root
\* finder raise (LinAlgError), which is RAISED here
npf_irr(values) ==
    IF ~AllFinite(values) THEN RAISED
    ELSE LET slo == FSign(Poly(IrrLo, values))
             shi == FSign(Poly(IrrHi, values))
         IN  IF slo = 0 \/ shi = 0 \/ slo = shi THEN NaN
             ELSE FSub(FDiv(One, Bisect(IrrLo, IrrHi, slo, values, IrrSteps)), One)

\* ------------------------------------------------------------------------
\* The assumptions the form collects (sidebar, lines 911-1093)
\* ------------------------------------------------------------------------
Residential == {"Single Family", "Multifamily"}

\* one example property per property type
Properties ==
    { [property_type |-> "Single Family", units_or_sf |-> 1,
       unit_rents |-> <<F(2500)>>, rent_per_sf |-> Zero,
       opex_per_unit_or_sf |-> F(5000), capex_per_unit_or_sf |-> F(2000)],
      [property_type |-> "Multifamily", units_or_sf |-> 5,
       unit_rents |-> <<F(1500), F(1500), F(1500), F(1500), F(1500)>>, rent_per_sf |-> Zero,
       opex_per_unit_or_sf |-> F(6000), capex_per_unit_or_sf |-> F(300)],
      [property_type |-> "Office", units_or_sf |-> 10000,
       unit_rents |-> <<>>, rent_per_sf |-> F(30),
       opex_per_unit_or_sf |-> F(12), capex_per_unit_or_sf |-> Dec(15, 1)],
      [property_type |-> "Retail", units_or_sf |-> 8000,
       unit_rents |-> <<>>, rent_per_sf |-> F(30),
       opex_per_unit_or_sf |-> F(12), capex_per_unit_or_sf |-> Dec(15, 1)] }

MaxAmort == 2
MaxIO == 2
MaxHold == 3

\* px is <<purchase_price, closing_costs>>
Assumptions ==
    { [property |-> pr, purchase_price |-> px[1], closing_costs |-> px[2],
       rent_growth |-> F(3), vacancy |-> F(5), opex_growth |-> F(3),
       management_fee |-> F(4), loan_to_value |-> ltv, interest_rate |-> ir,
       amortization |-> am, io_period |-> io, holding_period |-> hp,
       exit_cap_rate |-> ec, selling_costs |-> F(2), discount_rate |-> F(12),
       tax_rate |-> tr, building_value_pct |-> F(80)] :
      pr \in Properties,
      px \in { <<F(1000000), F(20000)>>, <<F(1000000), Zero>>, <<Zero, Zero>> },
      ltv \in { Zero, F(70) }, ir \in { Zero, Dec(65, 1) },
      am \in 0..MaxAmort, io \in 0..MaxIO, hp \in 1..MaxHold,
      ec \in { Zero, Dec(55, 1) }, tr \in { Zero, F(25) } }

\* ------------------------------------------------------------------------
\* State of one run of the script
\* ------------------------------------------------------------------------
VARIABLES
    inp,                  \* the assumptions read from the form
    pc,                   \* how far the script has run
    exc,                  \* the exception that stopped the run, or "none"
    total_acquisition, loan_amount, equity_required,
    year_1_noi, going_in_cap, annual_depreciation,
    cash_flow_data,       \* the rows calculate_cash_flows has built so far
    current_loan_balance, \* its running loan balance
    final_noi, sale_price, sale_costs, remaining_balance, net_sale_proceeds,
    cash_flows, irr, npv, equity_multiple, avg_coc,
    clicked,              \* the sensitivity button of this run and its selections
    test_range, one_results, sensitivity_level,
    heat_results, tornado_data,
    metrics,              \* the metrics dict handed to calculate_deal_score
    property_data,        \* the property dict handed to it
    total_score, score_breakdown, grade, rating,
    recommendation,       \* the dict generate_recommendation returns
    deals_file,           \* the deals of DEALS_FILE by name
    load_cache,           \* st.cache_data of load_deals_from_file: no or one value
    type_cache,           \* st.cache_data of get_deals_by_type by property type
    cf_cache,             \* st.cache_data of calculate_cash_flows by arguments
    type_deals,           \* what the sidebar of this run lists by property type
    saver                 \* save_deal_to_file in progress, by session

acqVars == <<total_acquisition, loan_amount, equity_required,
             year_1_noi, going_in_cap, annual_depreciation>>
projVars == <<cash_flow_data, current_loan_balance>>
termVars == <<sale_price, sale_costs, remaining_balance, net_sale_proceeds>>
retVars == <<cash_flows, irr, npv, equity_multiple, avg_coc>>
sensVars == <<clicked, test_range, one_results, sensitivity_level,
              heat_results, tornado_data>>
scoreVars == <<metrics, property_data, total_score, score_breakdown, grade, rating,
               recommendation>>
storeVars == <<deals_file, load_cache, type_cache, type_deals, saver>>
vars == <<inp, pc, exc, acqVars, projVars, final_noi, termVars, retVars, sensVars,
          scoreVars, storeVars, cf_cache>>

\* a name the script has not assigned yet
Unset == <<0, 902>>

\* a value that is not a number (a string or None)
Malformed == <<0, 904>>

\* the deal score names before the scorer has run
NoScore ==
    /\ metrics = <<>> /\ property_data = <<>>
    /\ total_score = -1 /\ score_breakdown = <<>>
    /\ grade = "none" /\ rating = "none"
    /\ recommendation = <<>>

Pct(x) == FDiv(x, Hundred)

\* annual_rent_total of the form (lines 969, 981, 990)
AnnualRentTotal(property) ==
    IF property.property_type \in Residential
    THEN FMul(FSum(Zero, property.unit_rents), Twelve)
    ELSE FMul(property.rent_per_sf, F(property.units_or_sf))

\* opex_per_unit_or_sf and capex_per_unit_or_sf are totals for a single
\* family house and per unit or per square foot otherwise
Scaled(property, per_unit_or_sf) ==
    IF property.property_type = "Single Family" THEN per_unit_or_sf
    ELSE FMul(per_unit_or_sf, F(property.units_or_sf))

Start(assumptions) ==
    /\ inp \in assumptions
    /\ pc = "inputs"
    /\ exc = "none"
    /\ total_acquisition = Unset /\ loan_amount = Unset /\ equity_required = Unset
    /\ year_1_noi = Unset /\ going_in_cap = Unset /\ annual_depreciation = Unset
    /\ cash_flow_data = <<>> /\ current_loan_balance = Unset
    /\ final_noi = Unset /\ sale_price = Unset /\ sale_costs = Unset
    /\ remaining_balance = Unset /\ net_sale_proceeds = Unset
    /\ cash_flows = <<>> /\ irr = Unset /\ npv = Unset
    /\ equity_multiple = Unset /\ avg_coc = Unset
    /\ clicked = [mode |-> "none", var1 |-> "none", var2 |-> "none", metric |-> "none"]
    /\ test_range = <<>> /\ one_results = <<>> /\ sensitivity_level = "none"
    /\ heat_results = <<>> /\ tornado_data = <<>>
    /\ NoScore
    /\ deals_file = <<>> /\ load_cache = {} /\ type_cache = <<>> /\ cf_cache = <<>>
    /\ type_deals = <<>> /\ saver = <<>>

Init == Start(Assumptions)

\* total_acquisition = purchase_price + closing_costs (line 1096)
TotalAcquisition(purchase_price, closing_costs) == FAdd(purchase_price, closing_costs)

\* a loan sized on the total acquisition cost instead of the purchase price
LoanAmount_OnTotalCost(purchase_price, closing_costs, loan_to_value) ==
    FMul(FAdd(purchase_price, closing_costs), Pct(loan_to_value))

\* a slider at 0 taken for "not set" and replaced by the default of 70
LoanAmount_ZeroIsDefault(purchase_price, closing_costs, loan_to_value) ==
    FMul(purchase_price, Pct(IF IsZero(loan_to_value) THEN F(70) ELSE loan_to_value))

\* loan_amount = purchase_price * (loan_to_value / 100) (line 1097)
LoanAmount(purchase_price, closing_costs, loan_to_value) ==
    FMul(purchase_price, Pct(loan_to_value))

\* lines 1096-1142, and the first two statements of calculate_cash_flows
Acquire ==
    /\ pc = "inputs"
    /\ LET year_1_gri == AnnualRentTotal(inp.property)
           year_1_egi == FMul(year_1_gri, FSub(One, Pct(inp.vacancy)))
           year_1_opex == Scaled(inp.property, inp.property.opex_per_unit_or_sf)
           year_1_mgmt == FMul(year_1_egi, Pct(inp.management_fee))
           noi == FSub(FSub(year_1_egi, year_1_opex), year_1_mgmt)
           building_value == FMul(inp.purchase_price, Pct(inp.building_value_pct))
       IN  /\ total_acquisition' = TotalAcquisition(inp.purchase_price, inp.closing_costs)
           /\ loan_amount' = LoanAmount(inp.purchase_price, inp.closing_costs, inp.loan_to_value)
           /\ equity_required' = FSub(total_acquisition', loan_amount')
           /\ year_1_noi' = noi
           /\ going_in_cap' = IF FGt(inp.purchase_price, Zero)
                              THEN FMul(FDiv(noi, inp.purchase_price), Hundred)
                              ELSE Zero
           /\ annual_depreciation' =
                  IF FGt(inp.tax_rate, Zero)
                  THEN (IF inp.property.property_type \in Residential
                        THEN FDiv(building_value, Dec(275, 1))
                        ELSE FDiv(building_value, F(39)))
                  ELSE Zero
           /\ current_loan_balance' = loan_amount'
    /\ pc' = "project"
    /\ UNCHANGED <<storeVars, cf_cache, scoreVars, inp, exc, cash_flow_data, final_noi, termVars, retVars, sensVars>>

\* (1 + growth / 100) ** (year - 1)
Growth(rate, year) == FPow(FAdd(One, Pct(rate)), year - 1)

RentsOfYear(unit_rents, rent_growth, year) ==
    [k \in 1..Len(unit_rents) |-> FMul(unit_rents[k], Growth(rent_growth, year))]

\* CapEx taken out of NOI instead of after it
OperatingYear_CapexInNoi(year) ==
    LET property == inp.property
        gri == IF property.property_type \in Residential
               THEN FMul(FSum(Zero, RentsOfYear(property.unit_rents, inp.rent_growth, year)), Twelve)
               ELSE FMul(AnnualRentTotal(property), Growth(inp.rent_growth, year))
        egi == FMul(gri, FSub(One, Pct(inp.vacancy)))
        opex == FMul(Scaled(property, property.opex_per_unit_or_sf), Growth(inp.opex_growth, year))
        mgmt == FMul(egi, Pct(inp.management_fee))
        capex == Scaled(property, property.capex_per_unit_or_sf)
        noi == FSub(FSub(FSub(egi, opex), mgmt), capex)
    IN  [gri |-> gri, egi |-> egi, opex |-> opex, mgmt |-> mgmt, capex |-> capex,
         noi |-> noi, ncf |-> noi]

\* a CapEx reserve that grows with the operating expenses
OperatingYear_CapexGrows(year) ==
    LET property == inp.property
        gri == IF property.property_type \in Residential
               THEN FMul(FSum(Zero, RentsOfYear(property.unit_rents, inp.rent_growth, year)), Twelve)
               ELSE FMul(AnnualRentTotal(property), Growth(inp.rent_growth, year))
        egi == FMul(gri, FSub(One, Pct(inp.vacancy)))
        opex == FMul(Scaled(property, property.opex_per_unit_or_sf), Growth(inp.opex_growth, year))
        mgmt == FMul(egi, Pct(inp.management_fee))
        capex == FMul(Scaled(property, property.capex_per_unit_or_sf),
                      Growth(inp.opex_growth, year))
        noi == FSub(FSub(egi, opex), mgmt)
    IN  [gri |-> gri, egi |-> egi, opex |-> opex, mgmt |-> mgmt, capex |-> capex,
         noi |-> noi, ncf |-> FSub(noi, capex)]

\* operating figures of one year (lines 1165-1191)
OperatingYear(year) ==
    LET property == inp.property
        gri == IF property.property_type \in Residential
               THEN FMul(FSum(Zero, RentsOfYear(property.unit_rents, inp.rent_growth, year)), Twelve)
               ELSE FMul(AnnualRentTotal(property), Growth(inp.rent_growth, year))
        egi == FMul(gri, FSub(One, Pct(inp.vacancy)))
        opex == FMul(Scaled(property, property.opex_per_unit_or_sf), Growth(inp.opex_growth, year))
        mgmt == FMul(egi, Pct(inp.management_fee))
        capex == Scaled(property, property.capex_per_unit_or_sf)
        noi == FSub(FSub(egi, opex), mgmt)
    IN  [gri |-> gri, egi |-> egi, opex |-> opex, mgmt |-> mgmt, capex |-> capex,
         noi |-> noi, ncf |-> FSub(noi, capex)]

\* interest and principal of one year (lines 1194-1217):
\* <<current_loan_balance, interest_expense, principal_paid_this_year>>
LoanYear(year, balance) ==
    IF IsZero(loan_amount) THEN <<balance, Zero, Zero>>
    ELSE IF year <= inp.io_period
    THEN <<balance, FMul(balance, Pct(inp.interest_rate)), Zero>>
    ELSE IF inp.amortization > inp.io_period
    THEN LET monthly_rate == IF FGt(inp.interest_rate, Zero)
                             THEN FDiv(Pct(inp.interest_rate), Twelve) ELSE Zero
             remaining_payments == (inp.amortization - inp.io_period) * 12
             monthly_payment == AnnuityPayment(loan_amount, monthly_rate, remaining_payments)
         IN  MonthLoop(balance, Zero, Zero, monthly_payment, monthly_rate, 12)
    ELSE <<balance, Zero, Zero>>

\* one row of the table (lines 1219-1244)
Row(year, op, ds, interest_expense) ==
    LET btcf == FSub(op.ncf, ds)
        taxable_income == FSub(FSub(op.noi, interest_expense), annual_depreciation)
        tax_due == FMul(taxable_income, Pct(inp.tax_rate))
        taxes == IF FGt(inp.tax_rate, Zero)
                 THEN (IF FGt(tax_due, Zero) THEN tax_due ELSE Zero)
                 ELSE Zero
        atcf == IF FGt(inp.tax_rate, Zero) THEN FSub(btcf, taxes) ELSE btcf
        coc == IF FGt(equity_required, Zero)
               THEN FMul(FDiv(btcf, equity_required), Hundred) ELSE Zero
    IN  [Year |-> year, GrossIncome |-> op.gri, EGI |-> op.egi, OpEx |-> op.opex,
         MgmtFees |-> op.mgmt, CapEx |-> op.capex, NOI |-> op.noi,
         DebtService |-> ds, BTCF |-> btcf, Taxes |-> taxes, ATCF |-> atcf,
         CoC |-> coc]

\* a cache key that leaves the tax rate and the depreciation out
CacheKey_WithoutTax ==
    <<inp.property.property_type, inp.holding_period, inp.property.unit_rents,
      AnnualRentTotal(inp.property), inp.rent_growth, inp.vacancy,
      inp.property.opex_per_unit_or_sf, inp.opex_growth, inp.property.units_or_sf,
      inp.management_fee, inp.property.capex_per_unit_or_sf, loan_amount,
      inp.interest_rate, inp.amortization, inp.io_period, equity_required,
      Zero, Zero>>

\* the arguments of the call of calculate_cash_flows (lines 1247-1252), the
\* key of its st.cache_data (line 1144)
CacheKey ==
    <<inp.property.property_type, inp.holding_period, inp.property.unit_rents,
      AnnualRentTotal(inp.property), inp.rent_growth, inp.vacancy,
      inp.property.opex_per_unit_or_sf, inp.opex_growth, inp.property.units_or_sf,
      inp.management_fee, inp.property.capex_per_unit_or_sf, loan_amount,
      inp.interest_rate, inp.amortization, inp.io_period, equity_required,
      inp.tax_rate, annual_depreciation>>

\* calculate_cash_flows (lines 1144-1254): the table of an earlier call with
\* the same arguments is returned from the cache; otherwise one iteration of
\* the loop (lines 1164-1244), and the finished table is cached
CashFlowYear ==
    /\ pc = "project"
    /\ Len(cash_flow_data) < inp.holding_period
    /\ IF cash_flow_data = <<>> /\ CacheKey \in DOMAIN cf_cache
       THEN /\ cash_flow_data' = cf_cache[CacheKey]
            /\ UNCHANGED <<pc, exc, current_loan_balance, cf_cache>>
       ELSE \E year \in {Len(cash_flow_data) + 1} :
            \E ds \in {calculate_debt_service(year, loan_amount, inp.interest_rate,
                                              inp.amortization, inp.io_period)} :
            \E loan \in {LoanYear(year, current_loan_balance)} :
              IF IsRaised(ds) \/ IsRaised(loan[1])
              THEN /\ exc' = "ZeroDivisionError"
                   /\ pc' = "crashed"
                   /\ UNCHANGED <<projVars, cf_cache>>
              ELSE /\ cash_flow_data' = Append(cash_flow_data,
                                               Row(year, OperatingYear(year), ds, loan[2]))
                   /\ current_loan_balance' = loan[1]
                   /\ cf_cache' = IF year = inp.holding_period
                                  THEN (CacheKey :> cash_flow_data') @@ cf_cache
                                  ELSE cf_cache
                   /\ UNCHANGED <<pc, exc>>
    /\ UNCHANGED <<storeVars, scoreVars, inp, acqVars, final_noi, termVars, retVars, sensVars>>

cf_df == cash_flow_data

\* terminal analysis (lines 1265-1283)
Terminal ==
    /\ pc = "project"
    /\ Len(cash_flow_data) = inp.holding_period
    /\ LET terminal_noi == FMul(cf_df[Len(cf_df)].NOI, FAdd(One, Pct(inp.rent_growth)))
       IN  /\ final_noi' = cf_df[Len(cf_df)].NOI
           /\ sale_price' = IF FGt(inp.exit_cap_rate, Zero)
                            THEN FDiv(terminal_noi, Pct(inp.exit_cap_rate))
                            ELSE Zero
           /\ sale_costs' = FMul(sale_price', Pct(inp.selling_costs))
           /\ remaining_balance' = calc_remaining_balance(loan_amount, inp.interest_rate,
                                       inp.amortization, inp.io_period, inp.holding_period)
           /\ net_sale_proceeds' = FSub(FSub(sale_price', sale_costs'), remaining_balance')
    /\ pc' = "returns"
    /\ UNCHANGED <<storeVars, cf_cache, scoreVars, inp, exc, acqVars, projVars, retVars, sensVars>>

Column(name) == [k \in 1..Len(cf_df) |->
                    IF name = "ATCF" THEN cf_df[k].ATCF
                    ELSE IF name = "BTCF" THEN cf_df[k].BTCF
                    ELSE cf_df[k].CoC]

AddToLast(seq, x) == [k \in 1..Len(seq) |-> IF k = Len(seq) THEN FAdd(seq[k], x) ELSE seq[k]]

\* returns (lines 1285-1296)
Returns ==
    /\ pc = "returns"
    /\ LET flow_column == Column(IF FGt(inp.tax_rate, Zero) THEN "ATCF" ELSE "BTCF")
           flows == AddToLast(<<FNeg(equity_required)>> \o flow_column, net_sale_proceeds)
           solved == npf_irr(flows)
       IN  /\ cash_flows' = flows
           /\ irr' = IF IsRaised(solved) THEN Zero ELSE FMul(solved, Hundred)
           /\ npv' = npf_npv(Pct(inp.discount_rate), flows)
           /\ equity_multiple' =
                  IF FGt(equity_required, Zero)
                  THEN FDiv(FAdd(FSum(Zero, flow_column), net_sale_proceeds), equity_required)
                  ELSE Zero
           /\ avg_coc' = NDiv(FSum(Zero, Column("CoC")), F(Len(cf_df)))
    /\ pc' = "ready"
    /\ UNCHANGED <<storeVars, cf_cache, scoreVars, inp, exc, acqVars, projVars, final_noi, termVars, sensVars>>

Next == Acquire \/ CashFlowYear \/ Terminal \/ Returns

Spec == Init /\ [][Next]_vars

\* ------------------------------------------------------------------------
\* Sensitivity analysis (lines 1945-2339).  A click on one of the three
\* buttons runs the script again: the primary valuation is computed as above
\* from the same assumptions, then the block of the button runs.
\* ------------------------------------------------------------------------
sensitivity_vars ==
    <<"Exit Cap Rate", "Rent Growth Rate", "Interest Rate", "Vacancy Rate", "OpEx Growth Rate">>
SensitivityVars == {sensitivity_vars[k] : k \in 1..Len(sensitivity_vars)}
Metrics == {"IRR (%)", "NPV ($)", "Equity Multiple (x)"}

\* max(a, b) and min(a, b) of Python
PyMax(a, b) == IF FGt(b, a) THEN b ELSE a
PyMin(a, b) == IF FLt(b, a) THEN b ELSE a

\* np.linspace(start, stop, num)
LinSpace(start, stop, num) ==
    LET step == NDiv(FSub(stop, start), F(num - 1))
    IN  [k \in 1..num |-> IF k = num THEN stop ELSE FAdd(FMul(F(k - 1), step), start)]

BaseValue(var) ==
    CASE var = "Exit Cap Rate" -> inp.exit_cap_rate
      [] var = "Rent Growth Rate" -> inp.rent_growth
      [] var = "Interest Rate" -> inp.interest_rate
      [] var = "Vacancy Rate" -> inp.vacancy
      [] OTHER -> inp.opex_growth

\* floor and ceiling of each variable (lines 2004-2010 and 2157-2171)
Floor(var) ==
    CASE var = "Exit Cap Rate" -> F(3)
      [] var = "Interest Rate" -> F(2)
      [] OTHER -> Zero
Ceiling(var) ==
    CASE var = "Exit Cap Rate" -> F(9)
      [] var = "Interest Rate" -> F(10)
      [] var = "Vacancy Rate" -> F(15)
      [] OTHER -> F(6)

\* var_ranges of the two-way analysis (lines 2004-2010)
TwoWayWidth(var) ==
    CASE var = "Exit Cap Rate" -> Dec(15, 1)
      [] var = "Vacancy Rate" -> F(3)
      [] OTHER -> F(2)
var_ranges(var) ==
    LinSpace(PyMax(Floor(var), FSub(BaseValue(var), TwoWayWidth(var))),
             PyMin(Ceiling(var), FAdd(BaseValue(var), TwoWayWidth(var))), 7)

\* test_range of the one-way analysis (lines 2157-2171)
OneWayWidth(var) ==
    CASE var = "Exit Cap Rate" -> F(2)
      [] var = "Vacancy Rate" -> F(4)
      [] OTHER -> Dec(25, 1)
OneWayRange(var) ==
    LinSpace(PyMax(Floor(var), FSub(BaseValue(var), OneWayWidth(var))),
             PyMin(Ceiling(var), FAdd(BaseValue(var), OneWayWidth(var))), 13)

\* the metric of one scenario (lines 2060-2072 and 2209-2220); npf.irr
\* raising is caught by the bare except and gives 0
IrrPercent(solved) == IF IsRaised(solved) THEN Zero ELSE FMul(solved, Hundred)

ScenarioMetric(temp_cf_list, temp_proceeds, metric) ==
    CASE metric = "IRR (%)" ->
             IrrPercent(npf_irr(AddToLast(<<FNeg(equity_required)>> \o temp_cf_list,
                                          temp_proceeds)))
      [] metric = "NPV ($)" ->
             npf_npv(Pct(inp.discount_rate),
                     AddToLast(<<FNeg(equity_required)>> \o temp_cf_list, temp_proceeds))
      [] OTHER -> NDiv(FAdd(FSum(Zero, temp_cf_list), temp_proceeds), equity_required)

\* temp_proceeds = temp_sale * 0.94 - remaining_balance, and the metric
ScenarioSale(temp_cf_list, noi_at_sale, temp_sale, temp_annual_ds, metric) ==
    [final_noi |-> noi_at_sale,
     result |-> IF IsRaised(temp_sale) \/ IsRaised(temp_annual_ds) THEN RAISED
                ELSE ScenarioMetric(temp_cf_list,
                                    FSub(FMul(temp_sale, Dec(94, 2)), remaining_balance),
                                    metric)]

\* ncf_values - temp_annual_ds, with noi_values = year_1_noi * rent_factor ** (years - 1)
ScenarioFlows(rent_factor, capex_annual, temp_annual_ds) ==
    [k \in 1..inp.holding_period |->
        FSub(FSub(FMul(year_1_noi, FPow(rent_factor, k - 1)), capex_annual), temp_annual_ds)]

ScenarioExit(rent_factor, noi_at_sale, exit_rate, temp_annual_ds, numpy_sale, metric) ==
    ScenarioSale(ScenarioFlows(rent_factor,
                               Scaled(inp.property, inp.property.capex_per_unit_or_sf),
                               temp_annual_ds),
                 noi_at_sale,
                 IF numpy_sale THEN NDiv(noi_at_sale, exit_rate) ELSE FDiv(noi_at_sale, exit_rate),
                 temp_annual_ds, metric)

ScenarioGrowth(rent_factor, exit_rate, temp_annual_ds, numpy_sale, metric) ==
    ScenarioExit(rent_factor, FMul(year_1_noi, FPow(rent_factor, inp.holding_period)),
                 exit_rate, temp_annual_ds, numpy_sale, metric)

\* One scenario of the one-way or two-way loop (lines 2031-2072 and
\* 2186-2220).  numpy_sale: the tested rent growth or exit cap rate is a
\* numpy scalar, so that the division giving temp_sale follows numpy.
Scenario(test_rent_gr, test_exit, temp_annual_ds, numpy_sale, metric) ==
    ScenarioGrowth(FAdd(One, Pct(test_rent_gr)), Pct(test_exit), temp_annual_ds,
                   numpy_sale, metric)

\* the value of variable `var` in a scenario that tests `tested` at `value`
TestValue(var, tested, value) == IF var = tested THEN value ELSE BaseValue(var)

\* one scenario of the one-way loop (lines 2175-2222)
OneWayScenario(test_var, test_val, metric) ==
    LET test_int == TestValue("Interest Rate", test_var, test_val)
    IN  Scenario(TestValue("Rent Growth Rate", test_var, test_val),
                 TestValue("Exit Cap Rate", test_var, test_val),
                 calculate_debt_service(1, loan_amount, test_int,
                                        inp.amortization, inp.io_period),
                 test_var \in {"Rent Growth Rate", "Exit Cap Rate"},
                 metric)

\* the boundary 1.5 taken into HIGH (>= instead of >)
LevelOf_Inclusive(slope) ==
    IF FGe(FAbs(slope), Dec(15, 1)) THEN "HIGH"
    ELSE IF FGt(FAbs(slope), Dec(5, 1)) THEN "MODERATE"
    ELSE "LOW"

\* lines 2253-2255
LevelOf(slope) ==
    IF FGt(FAbs(slope), Dec(15, 1)) THEN "HIGH"
    ELSE IF FGt(FAbs(slope), Dec(5, 1)) THEN "MODERATE"
    ELSE "LOW"

SensitivityLevel(results, range) ==
    LevelOf(NDiv(FSub(results[Len(results)], results[1]),
                 FSub(range[Len(range)], range[1])))

Rendered == pc = "ready"

\* any other interaction with the page runs the script again with no button
\* pressed: the primary valuation is recomputed and the results of the
\* last analysis are gone
Rerun ==
    /\ pc \in {"analysed", "crashed"}
    /\ clicked.mode # "none"
    /\ pc' = "ready"
    /\ exc' = "none"
    /\ final_noi' = cf_df[Len(cf_df)].NOI
    /\ clicked' = [mode |-> "none", var1 |-> "none", var2 |-> "none", metric |-> "none"]
    /\ test_range' = <<>> /\ one_results' = <<>> /\ sensitivity_level' = "none"
    /\ heat_results' = <<>> /\ tornado_data' = <<>>
    /\ UNCHANGED <<storeVars, cf_cache, scoreVars, inp, acqVars, projVars, termVars, retVars>>

\* the number of scenarios that complete before one raises
RECURSIVE Completed(_, _)
Completed(results, k) ==
    IF k > Len(results) THEN Len(results)
    ELSE IF IsRaised(results[k]) THEN k - 1
    ELSE Completed(results, k + 1)

OneWayResults(cells) == [k \in 1..Len(cells) |-> cells[k].result]

\* the one-way button (lines 2153-2260)
OneWay ==
    /\ Rendered
    /\ \E test_var \in SensitivityVars, one_metric \in Metrics :
       \E range \in {OneWayRange(test_var)} :
       \E cells \in {[k \in 1..13 |-> OneWayScenario(test_var, range[k], one_metric)]} :
       \E done \in {Completed(OneWayResults(cells), 1)} :
         /\ clicked' = [mode |-> "one-way", var1 |-> test_var, var2 |-> "none",
                        metric |-> one_metric]
         /\ test_range' = range
         /\ final_noi' = cells[IF done = 13 THEN 13 ELSE done + 1].final_noi
         /\ one_results' = SubSeq(OneWayResults(cells), 1, done)
         /\ sensitivity_level' = IF done = 13
                                 THEN SensitivityLevel(OneWayResults(cells), range)
                                 ELSE "none"
         /\ pc' = IF done = 13 THEN "analysed" ELSE "crashed"
         /\ exc' = IF done = 13 THEN "none" ELSE "ZeroDivisionError"
    /\ heat_results' = <<>>
    /\ tornado_data' = <<>>
    /\ UNCHANGED <<storeVars, cf_cache, scoreVars, inp, acqVars, projVars, termVars, retVars>>

\* 12 * loan_amount * (test_monthly_rate * growth) / (growth - 1) on numpy scalars
TwoWayPaymentAt(test_monthly_rate, growth) ==
    NDiv(FMul(FMul(Twelve, loan_amount), FMul(test_monthly_rate, growth)), FSub(growth, One))

TwoWayPayment(test_monthly_rate) ==
    TwoWayPaymentAt(test_monthly_rate,
                    FPow(FAdd(One, test_monthly_rate),
                         (inp.amortization - inp.io_period) * 12))

\* the debt service of a two-way scenario (lines 2043-2049)
TwoWayDebtService(test_int) ==
    IF test_int # inp.interest_rate
    THEN (IF inp.amortization > inp.io_period
          THEN TwoWayPayment(FDiv(Pct(test_int), Twelve))
          ELSE NDiv(FMul(loan_amount, test_int), Hundred))
    ELSE calculate_debt_service(1, loan_amount, test_int, inp.amortization, inp.io_period)

\* the value of variable `var` in the cell (val1, val2) (lines 2025-2029)
CellValue(var, var1, var2, val1, val2) ==
    IF var # var1 /\ var # var2 THEN BaseValue(var)
    ELSE IF var = var1 THEN val1 ELSE val2

\* one cell of the two-way grid (lines 2022-2074)
TwoWayScenario(var1, var2, val1, val2, metric) ==
    Scenario(CellValue("Rent Growth Rate", var1, var2, val1, val2),
             CellValue("Exit Cap Rate", var1, var2, val1, val2),
             TwoWayDebtService(CellValue("Interest Rate", var1, var2, val1, val2)),
             {var1, var2} \cap {"Rent Growth Rate", "Exit Cap Rate"} # {},
             metric)

\* the cells in the order the loops compute them
TwoWayResults(cells) == [n \in 1..49 |-> cells[((n - 1) \div 7) + 1][((n - 1) % 7) + 1].result]

\* the heat-map button (lines 2000-2107); heat_results starts as np.zeros
TwoWay ==
    /\ Rendered
    /\ \E var1 \in SensitivityVars, metric_choice \in Metrics :
       \E var2 \in SensitivityVars \ {var1} :
       \E var1_range \in {var_ranges(var1)}, var2_range \in {var_ranges(var2)} :
       \E cells \in {[i \in 1..7 |-> [j \in 1..7 |->
                        TwoWayScenario(var1, var2, var1_range[i], var2_range[j],
                                       metric_choice)]]} :
       \E done \in {Completed(TwoWayResults(cells), 1)} :
         /\ clicked' = [mode |-> "two-way", var1 |-> var1, var2 |-> var2,
                        metric |-> metric_choice]
         /\ heat_results' = [i \in 1..7 |-> [j \in 1..7 |->
                                IF (i - 1) * 7 + j <= done THEN cells[i][j].result ELSE Zero]]
         /\ final_noi' = IF done = 49 THEN cells[7][7].final_noi
                         ELSE cells[(done \div 7) + 1][(done % 7) + 1].final_noi
         /\ pc' = IF done = 49 THEN "analysed" ELSE "crashed"
         /\ exc' = IF done = 49 THEN "none" ELSE "ZeroDivisionError"
    /\ test_range' = <<>>
    /\ one_results' = <<>>
    /\ sensitivity_level' = "none"
    /\ tornado_data' = <<>>
    /\ UNCHANGED <<storeVars, cf_cache, scoreVars, inp, acqVars, projVars, termVars, retVars>>

\* for yr in range(holding_period): temp_noi *= (1 + rent_gr / 100)
RECURSIVE GrowNoi(_, _, _)
GrowNoi(temp_noi, factor, years) ==
    IF years = 0 THEN temp_noi ELSE GrowNoi(FMul(temp_noi, factor), factor, years - 1)

\* simple_return * 100 of one tested value (lines 2308-2329)
SimpleReturn(temp_sale) ==
    FMul(FDiv(FSub(FMul(temp_sale, Dec(94, 2)), equity_required), equity_required), Hundred)

\* an outcome in which the tested vacancy rate scales the income
TornadoOutcome_VacancyApplied(var_name, test_val) ==
    SimpleReturn(
        FDiv(GrowNoi(FMul(year_1_noi,
                          FSub(One, Pct(IF var_name = "Vacancy Rate" THEN test_val
                                        ELSE Zero))),
                     FAdd(One, Pct(IF var_name = "Rent Growth Rate" THEN test_val
                                   ELSE inp.rent_growth)),
                     inp.holding_period),
             Pct(IF var_name = "Exit Cap Rate" THEN test_val ELSE inp.exit_cap_rate)))

TornadoOutcome(var_name, test_val) ==
    SimpleReturn(
        FDiv(GrowNoi(year_1_noi,
                     FAdd(One, Pct(IF var_name = "Rent Growth Rate" THEN test_val
                                   ELSE inp.rent_growth)),
                     inp.holding_period),
             Pct(IF var_name = "Exit Cap Rate" THEN test_val ELSE inp.exit_cap_rate)))

TornadoRecord(var_name, low, high) ==
    [variable |-> var_name, low |-> low, high |-> high, range |-> FAbs(FSub(high, low))]

TornadoValues(var_name, low_val, high_val) ==
    TornadoRecord(var_name, TornadoOutcome(var_name, low_val),
                  TornadoOutcome(var_name, high_val))

\* one entry of tornado_data (lines 2296-2336)
TornadoEntry(var_name) ==
    TornadoValues(var_name, FMul(BaseValue(var_name), Dec(8, 1)),
                  FMul(BaseValue(var_name), Dec(12, 1)))

\* the sort without reverse=True: smallest range first
RECURSIVE InsertByRange_Ascending(_, _)
InsertByRange_Ascending(sorted, item) ==
    IF sorted = <<>> THEN <<item>>
    ELSE IF FGt(Head(sorted).range, item.range) THEN <<item>> \o sorted
    ELSE <<Head(sorted)>> \o InsertByRange_Ascending(Tail(sorted), item)

\* list.sort(key=range, reverse=True): stable, largest range first
RECURSIVE InsertByRange(_, _)
InsertByRange(sorted, item) ==
    IF sorted = <<>> THEN <<item>>
    ELSE IF FLt(Head(sorted).range, item.range) THEN <<item>> \o sorted
    ELSE <<Head(sorted)>> \o InsertByRange(Tail(sorted), item)

RECURSIVE SortByRange(_, _)
SortByRange(sorted, items) ==
    IF items = <<>> THEN sorted
    ELSE SortByRange(InsertByRange(sorted, Head(items)), Tail(items))

\* the tornado button (lines 2289-2339)
Tornado ==
    /\ Rendered
    /\ \E tornado_metric \in Metrics :
       \E entries \in {[k \in 1..Len(sensitivity_vars) |-> TornadoEntry(sensitivity_vars[k])]} :
       \E raised \in {\E k \in 1..Len(entries) : IsRaised(entries[k].range)} :
         /\ clicked' = [mode |-> "tornado", var1 |-> "none", var2 |-> "none",
                        metric |-> tornado_metric]
         /\ tornado_data' = IF raised THEN <<>> ELSE SortByRange(<<>>, entries)
         /\ pc' = IF raised THEN "crashed" ELSE "analysed"
         /\ exc' = IF raised THEN "ZeroDivisionError" ELSE "none"
    /\ test_range' = <<>>
    /\ one_results' = <<>>
    /\ sensitivity_level' = "none"
    /\ heat_results' = <<>>
    /\ UNCHANGED <<storeVars, cf_cache, scoreVars, inp, acqVars, projVars, final_noi, termVars, retVars>>

\* the assumption sets of the sensitivity runs: a levered multifamily deal
\* with and without an interest-only year and with an exit cap rate of 0, an
\* unlevered deal with and without interest, and a deal without equity
SensAssumptions ==
    { a \in Assumptions :
        /\ a.property.property_type = "Multifamily"
        /\ a.amortization = 2
        /\ IsZero(a.tax_rate)
        /\ \/ /\ a.closing_costs # Zero /\ ~IsZero(a.loan_to_value)
              /\ ~IsZero(a.interest_rate)
              /\ a.io_period \in {0, 1} /\ a.holding_period = 2
           \/ /\ a.closing_costs # Zero /\ ~IsZero(a.loan_to_value)
              /\ ~IsZero(a.interest_rate) /\ ~IsZero(a.exit_cap_rate)
              /\ a.io_period = 0 /\ a.holding_period = 3
           \/ /\ a.closing_costs # Zero /\ IsZero(a.loan_to_value)
              /\ ~IsZero(a.exit_cap_rate)
              /\ a.io_period = 0 /\ a.holding_period = 2
           \/ /\ IsZero(a.purchase_price) /\ ~IsZero(a.loan_to_value)
              /\ ~IsZero(a.interest_rate) /\ ~IsZero(a.exit_cap_rate)
              /\ a.io_period = 0 /\ a.holding_period = 2 }

InitSens == Start(SensAssumptions)

NextSens == Next \/ OneWay \/ TwoWay \/ Tornado \/ Rerun

SpecSens == InitSens /\ [][NextSens]_vars

\* ------------------------------------------------------------------------
\* Properties
\* ------------------------------------------------------------------------
Acquired == pc # "inputs"
Sold == pc \in {"returns", "ready", "analysed"} \/ (pc = "crashed" /\ clicked.mode # "none")
Reported == pc \in {"ready", "analysed"} \/ (pc = "crashed" /\ clicked.mode # "none")

\* C1: with exit_cap_rate <= 0 the valuation fails instead of producing a
\* sale price of 0 and going on to report IRR, NPV and equity multiple
C1_ExitCapRejected ==
    FLe(inp.exit_cap_rate, Zero) => (sale_price # Zero /\ ~Reported)

\* C2: with equity_required = 0 no numeric equity multiple is reported
C2_ZeroEquityRejected ==
    (Acquired /\ IsZero(equity_required)) => ~IsFinite(equity_multiple)

\* C3: a loan with positive principal and interest_only_years >=
\* amortization_years never amortizes: calc_remaining_balance returns the
\* original principal for every holding period
C3_NeverAmortizes ==
    (Sold /\ FGt(loan_amount, Zero) /\ inp.io_period >= inp.amortization)
        => remaining_balance = loan_amount

\* |a - b| is within the rounding of the schedule: a 1/10000 of the loan
BalanceTol == Dec(1, 4)
Within(a, b) == FLe(FAbs(FSub(a, b)), FMul(BalanceTol, loan_amount))

\* C4: the closed-form calc_remaining_balance(holding_period) equals the
\* balance reached by iterating the monthly split of calculate_cash_flows
\* from year 1 through holding_period
C4_ClosedFormMatchesSchedule ==
    Sold => Within(remaining_balance, current_loan_balance)

\* C5: at every year boundary of calculate_cash_flows the running balance is
\* not negative, does not increase once amortization has begun, and equals
\* the original principal at the end of every interest-only year
C5_BalanceStep ==
    (pc = "project" /\ Len(cash_flow_data') = Len(cash_flow_data) + 1)
        => /\ FGe(current_loan_balance', FNeg(FMul(BalanceTol, loan_amount)))
           /\ Len(cash_flow_data') > inp.io_period
                  => FLe(current_loan_balance',
                         FAdd(current_loan_balance, FMul(BalanceTol, loan_amount)))
           /\ Len(cash_flow_data') <= inp.io_period
                  => current_loan_balance' = loan_amount

C5_BalanceNeverNegative == [][C5_BalanceStep]_vars

\* C6: every row satisfies NOI = EGI - OpEx - Mgmt Fees, BTCF = (NOI - CapEx)
\* - Debt Service, ATCF = BTCF - Taxes and Taxes >= 0; with tax_rate = 0 the
\* row carries Taxes = 0 and ATCF = BTCF
C6_RowIdentities ==
    \A k \in 1..Len(cash_flow_data) :
        LET row == cash_flow_data[k]
        IN  /\ row.NOI = FSub(FSub(row.EGI, row.OpEx), row.MgmtFees)
            /\ row.BTCF = FSub(FSub(row.NOI, row.CapEx), row.DebtService)
            /\ row.ATCF = FSub(row.BTCF, row.Taxes)
            /\ FGe(row.Taxes, Zero)
            /\ IsZero(inp.tax_rate) => (row.Taxes = Zero /\ row.ATCF = row.BTCF)

C6_Witness ==
    /\ Reported
    /\ \E k \in 1..Len(cash_flow_data) :
           /\ FGt(cash_flow_data[k].Taxes, Zero)
           /\ FGt(cash_flow_data[k].CapEx, Zero)
           /\ FGt(cash_flow_data[k].DebtService, Zero)

\* C7: with loan_to_value = 0 the debt service of every year is 0, the
\* remaining balance is 0 and equity_required is purchase_price +
\* closing_costs
C7_Unlevered ==
    (Acquired /\ IsZero(inp.loan_to_value))
        => /\ \A k \in 1..Len(cash_flow_data) : cash_flow_data[k].DebtService = Zero
           /\ Sold => remaining_balance = Zero
           /\ equity_required = FAdd(inp.purchase_price, inp.closing_costs)

C7_Witness ==
    /\ Reported /\ IsZero(inp.loan_to_value)
    /\ FGt(inp.purchase_price, Zero) /\ FGt(inp.interest_rate, Zero)
    /\ Len(cash_flow_data) >= 2

IsExample ==
    /\ inp.purchase_price = F(1000000)
    /\ inp.closing_costs = F(20000)
    /\ inp.loan_to_value = F(70)

\* C8 (as stated): in the example scenario equity_required is $306,000
C8_ExampleEquity306 ==
    (Acquired /\ IsExample) => equity_required = F(306000)

\* C8 (amended): in the example scenario equity_required is $320,000, the
\* $1,020,000 total acquisition cost less a loan of 70% of the $1,000,000
\* purchase price
C8_ExampleEquity320 ==
    (Acquired /\ IsExample) => equity_required = F(320000)

C8_Witness == Reported /\ IsExample

\* C9: a one-way, two-way or tornado run never raises: whatever the
\* assumptions, the run of the button completes without an exception
C9_SensitivityNeverRaises ==
    clicked.mode # "none" => (exc = "none" /\ pc = "analysed")

\* the primary value of a metric (lines 1289-1295)
Primary(metric) ==
    CASE metric = "IRR (%)" -> irr
      [] metric = "NPV ($)" -> npv
      [] OTHER -> equity_multiple

\* a and b are the same number up to 1 % of the larger
Close(a, b) ==
    /\ IsFinite(a) /\ IsFinite(b)
    /\ FLe(FAbs(FSub(a, b)), FMul(Dec(1, 2), FMax(FAbs(a), FAbs(b))))

\* C10: the value a one-way or two-way analysis reports at the point where
\* the tested variables have their base values equals the primary irr, npv
\* or equity multiple
C10_BaseCaseMatchesPrimary ==
    /\ (pc = "analysed" /\ clicked.mode = "one-way") =>
           \A k \in 1..Len(test_range) :
               test_range[k] = BaseValue(clicked.var1)
                   => Close(one_results[k], Primary(clicked.metric))
    /\ (pc = "analysed" /\ clicked.mode = "two-way") =>
           \A i \in 1..7, j \in 1..7 :
               (/\ var_ranges(clicked.var1)[i] = BaseValue(clicked.var1)
                /\ var_ranges(clicked.var2)[j] = BaseValue(clicked.var2))
                   => Close(heat_results[i][j], Primary(clicked.metric))

\* the step is the run of a sensitivity button
SensitivityRun == clicked.mode = "none" /\ clicked'.mode # "none"

\* C11: a one-way, two-way or tornado run leaves the base assumptions and
\* every value of the primary valuation as they were before the run
C11_RunKeepsPrimary ==
    SensitivityRun =>
        UNCHANGED <<inp, cash_flow_data, final_noi, sale_price, remaining_balance,
                    net_sale_proceeds, irr, npv, equity_multiple>>

C11_SensitivityReadOnly == [][C11_RunKeepsPrimary]_vars

\* C12: the one-way test range of a variable is ascending and every value
\* of it lies within the floor and the ceiling of the variable
C12_TestRangeClamped ==
    clicked.mode = "one-way" =>
        /\ \A k \in 1..Len(test_range) :
               /\ FGe(test_range[k], Floor(clicked.var1))
               /\ FLe(test_range[k], Ceiling(clicked.var1))
        /\ \A k \in 1..(Len(test_range) - 1) : FLe(test_range[k], test_range[k + 1])

\* ------------------------------------------------------------------------
\* The slope classification of the one-way analysis on constructed results
\* (lines 2253-2255): the ranges and the results are drawn from small sets
\* ------------------------------------------------------------------------
ExampleDeal ==
    CHOOSE a \in Assumptions :
        /\ a.property.property_type = "Multifamily"
        /\ a.purchase_price = F(1000000) /\ a.closing_costs = F(20000)
        /\ a.loan_to_value = F(70) /\ a.interest_rate = Dec(65, 1)
        /\ a.amortization = MaxAmort /\ a.io_period = 0 /\ a.holding_period = MaxHold
        /\ a.exit_cap_rate = Dec(55, 1) /\ IsZero(a.tax_rate)

\* test ranges of width 4, of width 5 and of width 0; results from three
\* first values over differences on both sides of the thresholds
InitLevel ==
    /\ inp = ExampleDeal
    /\ pc = "classify"
    /\ exc = "none"
    /\ total_acquisition = Unset /\ loan_amount = Unset /\ equity_required = Unset
    /\ year_1_noi = Unset /\ going_in_cap = Unset /\ annual_depreciation = Unset
    /\ cash_flow_data = <<>> /\ current_loan_balance = Unset
    /\ final_noi = Unset /\ sale_price = Unset /\ sale_costs = Unset
    /\ remaining_balance = Unset /\ net_sale_proceeds = Unset
    /\ cash_flows = <<>> /\ irr = Unset /\ npv = Unset
    /\ equity_multiple = Unset /\ avg_coc = Unset
    /\ clicked = [mode |-> "none", var1 |-> "none", var2 |-> "none", metric |-> "none"]
    /\ test_range \in { LinSpace(Dec(35, 1), Dec(75, 1), 13),
                         LinSpace(Dec(5, 1), Dec(55, 1), 13), LinSpace(F(3), F(3), 13) }
    /\ one_results \in
          { LinSpace(first, FAdd(first, diff), 13) :
                first \in { Zero, F(10), F(-3) },
                diff \in { Zero, F(2), F(-2), Dec(25, 1), Dec(-25, 1), F(6), F(-6),
                           Dec(75, 1), Dec(-75, 1), Dec(19999, 4), Dec(20001, 4),
                           Dec(59999, 4), Dec(60001, 4), Dec(-60001, 4), Dec(75001, 4),
                           F(20), F(-20) } }
    /\ sensitivity_level = "none"
    /\ heat_results = <<>> /\ tornado_data = <<>>
    /\ NoScore
    /\ deals_file = <<>> /\ load_cache = {} /\ type_cache = <<>> /\ cf_cache = <<>>
    /\ type_deals = <<>> /\ saver = <<>>

\* slope and sensitivity_level of the given results (lines 2254-2255)
Classify ==
    /\ pc = "classify"
    /\ sensitivity_level' = SensitivityLevel(one_results, test_range)
    /\ pc' = "classified"
    /\ UNCHANGED <<storeVars, cf_cache, scoreVars, inp, exc, acqVars, projVars, final_noi, termVars, retVars,
                   clicked, test_range, one_results, heat_results, tornado_data>>

SpecLevel == InitLevel /\ [][Classify]_vars

\* the magnitude of the endpoint slope of the results over the range
SlopeMagnitude ==
    FAbs(NDiv(FSub(one_results[Len(one_results)], one_results[1]),
              FSub(test_range[Len(test_range)], test_range[1])))

\* C13: the level is HIGH exactly when the slope magnitude is greater than
\* 1.5, MODERATE exactly when it is greater than 0.5 and at most 1.5, LOW
\* otherwise; a flat metric is LOW and a magnitude of exactly 1.5 is MODERATE
C13_LevelThresholds ==
    pc = "classified" =>
        /\ sensitivity_level = "HIGH" <=> FGt(SlopeMagnitude, Dec(15, 1))
        /\ sensitivity_level = "MODERATE" <=>
               (FGt(SlopeMagnitude, Dec(5, 1)) /\ FLe(SlopeMagnitude, Dec(15, 1)))
        /\ sensitivity_level = "LOW" <=> ~FGt(SlopeMagnitude, Dec(5, 1))
        /\ one_results[Len(one_results)] = one_results[1] => sensitivity_level = "LOW"
        /\ SlopeMagnitude = Dec(15, 1) => sensitivity_level = "MODERATE"

C13_Witness ==
    /\ pc = "classified"
    /\ SlopeMagnitude = Dec(15, 1)
    /\ sensitivity_level = "MODERATE"

Get(dict, key, default) == IF key \in DOMAIN dict THEN dict[key] ELSE default

\* all-cash deals scored 10 for leverage, on top of the 5 of the coverage
LtvScore_AllCashTen(ltv) ==
    IF IsZero(ltv) THEN 10
    ELSE IF FLe(ltv, F(65)) THEN 5
    ELSE IF FLe(ltv, F(75)) THEN 4
    ELSE IF FLe(ltv, F(80)) THEN 3
    ELSE 1

\* the breakpoints of the IRR taken exclusive (> instead of >=)
IrrScore_Exclusive(irr_value) ==
    IF FGt(irr_value, F(20)) THEN 20
    ELSE IF FGt(irr_value, F(17)) THEN 18
    ELSE IF FGt(irr_value, F(15)) THEN 16
    ELSE IF FGt(irr_value, F(12)) THEN 13
    ELSE IF FGt(irr_value, F(10)) THEN 10
    ELSE IF FGt(irr_value, F(8)) THEN 6
    ELSE 2

\* lines 478-486
IrrScore(irr_value) ==
    IF FGe(irr_value, F(20)) THEN 20
    ELSE IF FGe(irr_value, F(17)) THEN 18
    ELSE IF FGe(irr_value, F(15)) THEN 16
    ELSE IF FGe(irr_value, F(12)) THEN 13
    ELSE IF FGe(irr_value, F(10)) THEN 10
    ELSE IF FGe(irr_value, F(8)) THEN 6
    ELSE 2

\* lines 488-495
EmScore(em) ==
    IF FGe(em, Dec(35, 1)) THEN 10
    ELSE IF FGe(em, F(3)) THEN 9
    ELSE IF FGe(em, Dec(25, 1)) THEN 8
    ELSE IF FGe(em, F(2)) THEN 6
    ELSE IF FGe(em, Dec(15, 1)) THEN 4
    ELSE 2

\* lines 507-513
ValueScore(npv_pct) ==
    IF FGe(npv_pct, F(25)) THEN 20
    ELSE IF FGe(npv_pct, F(20)) THEN 18
    ELSE IF FGe(npv_pct, F(15)) THEN 15
    ELSE IF FGe(npv_pct, F(10)) THEN 12
    ELSE IF FGe(npv_pct, F(5)) THEN 8
    ELSE IF FGe(npv_pct, Zero) THEN 5
    ELSE 0

\* lines 520-526
Coc1Score(year1_coc) ==
    IF FGe(year1_coc, F(10)) THEN 12
    ELSE IF FGe(year1_coc, F(8)) THEN 10
    ELSE IF FGe(year1_coc, F(6)) THEN 8
    ELSE IF FGe(year1_coc, F(4)) THEN 5
    ELSE IF FGe(year1_coc, F(2)) THEN 3
    ELSE 1

\* lines 529-534
CocAvgScore(coc) ==
    IF FGe(coc, F(12)) THEN 8
    ELSE IF FGe(coc, F(10)) THEN 7
    ELSE IF FGe(coc, F(8)) THEN 5
    ELSE IF FGe(coc, F(6)) THEN 3
    ELSE 1

\* lines 545-551
CapScore(cap_spread) ==
    IF FGe(cap_spread, Dec(15, 1)) THEN 10
    ELSE IF FGe(cap_spread, One) THEN 8
    ELSE IF FGe(cap_spread, Dec(5, 1)) THEN 6
    ELSE IF FGe(cap_spread, Zero) THEN 4
    ELSE IF FGe(cap_spread, Dec(-5, 1)) THEN 2
    ELSE 0

\* market_caps.get(property_type, 6.5) (lines 555-556)
MarketCap(property_type) ==
    CASE property_type = "Multifamily" -> Dec(55, 1)
      [] property_type = "Office" -> F(7)
      [] property_type = "Retail" -> Dec(65, 1)
      [] property_type = "Single Family" -> F(6)
      [] OTHER -> Dec(65, 1)

\* lines 558-561
EntryScore(cap_rate, market_cap) ==
    IF FGe(cap_rate, FAdd(market_cap, One)) THEN 5
    ELSE IF FGe(cap_rate, market_cap) THEN 3
    ELSE 1

\* lines 569-573
LtvScore(ltv) ==
    IF IsZero(ltv) THEN 5
    ELSE IF FLe(ltv, F(65)) THEN 5
    ELSE IF FLe(ltv, F(75)) THEN 4
    ELSE IF FLe(ltv, F(80)) THEN 3
    ELSE 1

\* lines 580-584
DscrScore(dscr) ==
    IF FGe(dscr, Dec(15, 1)) THEN 5
    ELSE IF FGe(dscr, Dec(13, 1)) THEN 4
    ELSE IF FGe(dscr, Dec(12, 1)) THEN 3
    ELSE IF FGe(dscr, Dec(11, 1)) THEN 2
    ELSE 0

\* lines 588-592
HoldScore(holding_period) ==
    IF FLe(holding_period, F(5)) THEN 5
    ELSE IF FLe(holding_period, F(10)) THEN 4
    ELSE IF FLe(holding_period, F(20)) THEN 3
    ELSE IF FLe(holding_period, F(30)) THEN 2
    ELSE 1

\* the boundaries of the grades taken exclusive (> instead of >=)
GradeOf_Exclusive(total) ==
    IF total > 95 THEN <<"A+", "Elite">>
    ELSE IF total > 90 THEN <<"A", "Outstanding">>
    ELSE IF total > 85 THEN <<"A-", "Excellent">>
    ELSE IF total > 80 THEN <<"B+", "Very Good">>
    ELSE IF total > 75 THEN <<"B", "Good">>
    ELSE IF total > 70 THEN <<"B-", "Above Average">>
    ELSE IF total > 65 THEN <<"C+", "Average">>
    ELSE IF total > 60 THEN <<"C", "Below Average">>
    ELSE IF total > 55 THEN <<"C-", "Weak">>
    ELSE <<"F", "Poor">>

\* grade, rating (lines 599-609)
GradeOf(total) ==
    IF total >= 95 THEN <<"A+", "Elite">>
    ELSE IF total >= 90 THEN <<"A", "Outstanding">>
    ELSE IF total >= 85 THEN <<"A-", "Excellent">>
    ELSE IF total >= 80 THEN <<"B+", "Very Good">>
    ELSE IF total >= 75 THEN <<"B", "Good">>
    ELSE IF total >= 70 THEN <<"B-", "Above Average">>
    ELSE IF total >= 65 THEN <<"C+", "Average">>
    ELSE IF total >= 60 THEN <<"C", "Below Average">>
    ELSE IF total >= 55 THEN <<"C-", "Weak">>
    ELSE <<"F", "Poor">>

\* a statement of the try block raises TypeError: a value that is no number
\* is compared or used in arithmetic (the npv only when equity > 0, the dscr
\* only when ltv is not 0)
ScoreRaises(m, p) ==
    \/ Get(m, "irr", Zero) = Malformed
    \/ Get(m, "equity_multiple", One) = Malformed
    \/ Get(p, "equity_required", One) = Malformed
    \/ (FGt(Get(p, "equity_required", One), Zero) /\ Get(m, "npv", Zero) = Malformed)
    \/ Get(m, "year1_coc", Zero) = Malformed
    \/ Get(m, "avg_coc", Zero) = Malformed
    \/ Get(p, "exit_cap_rate", Zero) = Malformed
    \/ Get(m, "cap_rate", Zero) = Malformed
    \/ Get(p, "loan_to_value", Zero) = Malformed
    \/ (~IsZero(Get(p, "loan_to_value", Zero)) /\ Get(m, "dscr", Zero) = Malformed)
    \/ Get(p, "holding_period", F(10)) = Malformed

\* score_breakdown: the five categories in the order of their insertion,
\* each {'score': ..., 'max': ...} (lines 497-597)
Breakdown(m, p) ==
    LET equity == Get(p, "equity_required", One)
        npv_pct == IF FGt(equity, Zero)
                   THEN FMul(FDiv(Get(m, "npv", Zero), equity), Hundred) ELSE Zero
        going_in == Get(m, "cap_rate", Zero)
        cap_spread == FSub(Get(p, "exit_cap_rate", Zero), going_in)
        ltv == Get(p, "loan_to_value", Zero)
        dscr_score == IF IsZero(ltv) THEN 5 ELSE DscrScore(Get(m, "dscr", Zero))
    IN  << [category |-> "Returns (IRR/EM)", max |-> 30,
            score |-> IrrScore(Get(m, "irr", Zero)) + EmScore(Get(m, "equity_multiple", One))],
           [category |-> "Value Creation (NPV)", max |-> 20,
            score |-> ValueScore(npv_pct)],
           [category |-> "Cash Flow Strength", max |-> 20,
            score |-> Coc1Score(Get(m, "year1_coc", Zero)) + CocAvgScore(Get(m, "avg_coc", Zero))],
           [category |-> "Market Positioning", max |-> 15,
            score |-> CapScore(cap_spread)
                        + EntryScore(going_in, MarketCap(Get(p, "property_type", "")))],
           [category |-> "Risk Profile", max |-> 15,
            score |-> LtvScore(ltv) + dscr_score + HoldScore(Get(p, "holding_period", F(10)))] >>

\* total_score (the sum of the five scores), score_breakdown, grade, rating
\* (lines 499-611)
Scored(breakdown) ==
    LET total == breakdown[1].score + breakdown[2].score + breakdown[3].score
                    + breakdown[4].score + breakdown[5].score
    IN  [total_score |-> total, score_breakdown |-> breakdown,
         grade |-> GradeOf(total)[1], rating |-> GradeOf(total)[2]]

\* the except branch returns 50, {}, 'C', 'Average' (lines 613-615)
calculate_deal_score(m, p) ==
    IF ScoreRaises(m, p)
    THEN [total_score |-> 50, score_breakdown |-> <<>>, grade |-> "C", rating |-> "Average"]
    ELSE Scored(Breakdown(m, p))

\* ------------------------------------------------------------------------
\* Recommendation (generate_recommendation, lines 618-708)
\* ------------------------------------------------------------------------

\* the categories with pct = (score / max) * 100 at 80 or more (strong) or
\* below 50 (weak), in the order of the breakdown
Flagged(breakdown, strong) ==
    LET pct(data) == FMul(FDiv(F(data.score), F(data.max)), Hundred)
        hits == SelectSeq(breakdown,
                    LAMBDA data : IF strong THEN FGe(pct(data), F(80))
                                  ELSE FLt(pct(data), F(50)))
    IN  [k \in 1..Len(hits) |-> hits[k].category]

\* sequence[:4]
FirstFour(sequence) == SubSeq(sequence, 1, IF Len(sequence) < 4 THEN Len(sequence) ELSE 4)

\* strengths before the cut to four (lines 644-655)
Strengths(breakdown, m) ==
    Flagged(breakdown, TRUE)
        \o (IF FGe(Get(m, "irr", Zero), F(15)) THEN <<"Superior IRR">> ELSE <<>>)
        \o (IF FGt(Get(m, "npv", Zero), Zero) THEN <<"Positive NPV">> ELSE <<>>)
        \o (IF FGe(Get(m, "equity_multiple", Zero), Dec(25, 1))
                THEN <<"Strong equity multiple">> ELSE <<>>)

\* risks before the cut to four (lines 660-672)
Risks(breakdown, m, p) ==
    Flagged(breakdown, FALSE)
        \o (IF FLt(Get(m, "irr", Zero), F(10)) THEN <<"IRR below threshold">> ELSE <<>>)
        \o (IF FLt(Get(m, "npv", Zero), Zero) THEN <<"Negative NPV">> ELSE <<>>)
        \o (IF FGt(Get(p, "holding_period", Zero), F(20)) THEN <<"Very long hold">> ELSE <<>>)

\* a statement of the try block raises: a value that is no number is
\* compared (TypeError), or metrics['irr'] is formatted when the key is
\* absent (KeyError: the default 0 is below 10)
RecommendationRaises(m, p) ==
    \/ Get(m, "irr", Zero) = Malformed
    \/ Get(m, "npv", Zero) = Malformed
    \/ Get(m, "equity_multiple", Zero) = Malformed
    \/ "irr" \notin DOMAIN m
    \/ Get(p, "holding_period", Zero) = Malformed

\* the action, the action items and the confidence by the total score; the
\* except branch returns 'REVIEW NEEDED' and empty lists (lines 697-706)
generate_recommendation(total, breakdown, m, p) ==
    IF RecommendationRaises(m, p)
    THEN [action |-> "REVIEW NEEDED", summary |-> "Unable to generate recommendation",
          strengths |-> <<>>, risks |-> <<>>, actions |-> <<>>, confidence |-> "N/A"]
    ELSE [action |-> IF total >= 85 THEN "STRONG BUY"
                     ELSE IF total >= 75 THEN "BUY"
                     ELSE IF total >= 65 THEN "HOLD"
                     ELSE IF total >= 55 THEN "PASS"
                     ELSE "HARD PASS",
          summary |-> IF total >= 85 THEN "exceptional risk-adjusted returns"
                      ELSE IF total >= 75 THEN "Solid investment opportunity"
                      ELSE IF total >= 65 THEN "Average deal with mixed qualities"
                      ELSE IF total >= 55 THEN "Below-average deal"
                      ELSE "critical red flags",
          strengths |-> FirstFour(Strengths(breakdown, m)),
          risks |-> FirstFour(Risks(breakdown, m, p)),
          actions |-> IF total >= 75
                      THEN <<"Verify rent comps", "Confirm property condition",
                             "Review tenant quality">>
                      ELSE <<"Reassess assumptions", "Explore ways to improve returns",
                             "Compare against other opportunities">>,
          confidence |-> IF total >= 85 THEN "HIGH"
                         ELSE IF total >= 70 THEN "MODERATE"
                         ELSE "LOW"]

\* ------------------------------------------------------------------------
\* The deal score and the recommendation of a deal
\* ------------------------------------------------------------------------

\* complete, well-formed metrics_for_score and property_for_score (lines
\* 1490-1506): the IRR at every breakpoint of its table, just below each and
\* outside; (year1_coc, avg_coc), (cap_rate, exit_cap_rate) and
\* (loan_to_value, dscr) in pairs that give a low, a middle and the top score
SoundDeals ==
    { << [irr |-> i, equity_multiple |-> em, npv |-> n, cap_rate |-> caps[1],
          year1_coc |-> cocs[1], avg_coc |-> cocs[2], dscr |-> debt[2]],
         [property_type |-> "Multifamily", equity_required |-> F(100000),
          exit_cap_rate |-> caps[2], loan_to_value |-> debt[1], holding_period |-> hold] >> :
        i \in { F(25), F(20), Dec(19999, 3), F(17), Dec(16999, 3), F(15), Dec(14999, 3),
                F(12), Dec(11999, 3), F(10), Dec(9999, 3), F(8), Dec(7999, 3), Zero },
        em \in { One, Dec(25, 1), Dec(35, 1) },
        n \in { F(-50000), F(12000), F(30000) },
        cocs \in { <<One, One>>, <<F(6), F(8)>>, <<F(12), F(12)>> },
        caps \in { <<Dec(65, 1), F(8)>>, <<F(5), Dec(65, 1)>>, <<F(6), F(5)>> },
        debt \in { <<Zero, Zero>>, <<F(70), Dec(125, 2)>>, <<F(85), One>> },
        hold \in { F(5), F(25) } }

BaseMetrics ==
    [irr |-> F(16), equity_multiple |-> Dec(25, 1), npv |-> F(12000), cap_rate |-> F(5),
     year1_coc |-> F(6), avg_coc |-> F(8), dscr |-> Dec(125, 2)]

BaseProperty ==
    [property_type |-> "Multifamily", equity_required |-> F(100000),
     exit_cap_rate |-> Dec(65, 1), loan_to_value |-> F(70), holding_period |-> F(5)]

\* inputs with one key absent or with one value that is not a number; with
\* no equity the npv is not divided, and with no loan the dscr is not read
DefectiveDeals ==
    { <<[k \in DOMAIN BaseMetrics \ {key} |-> BaseMetrics[k]], BaseProperty>> :
            key \in DOMAIN BaseMetrics }
        \cup { <<BaseMetrics, [k \in DOMAIN BaseProperty \ {key} |-> BaseProperty[k]]>> :
                    key \in DOMAIN BaseProperty }
        \cup { <<[BaseMetrics EXCEPT ![key] = Malformed], BaseProperty>> :
                    key \in DOMAIN BaseMetrics }
        \cup { <<BaseMetrics, [BaseProperty EXCEPT ![key] = Malformed]>> :
                    key \in DOMAIN BaseProperty \ {"property_type"} }
        \cup { <<[BaseMetrics EXCEPT !.npv = Malformed],
                 [BaseProperty EXCEPT !.equity_required = Zero]>>,
               <<[BaseMetrics EXCEPT !.dscr = Malformed],
                 [BaseProperty EXCEPT !.loan_to_value = Zero]>> }

InitScore ==
    /\ inp = ExampleDeal
    /\ pc = "score"
    /\ exc = "none"
    /\ total_acquisition = Unset /\ loan_amount = Unset /\ equity_required = Unset
    /\ year_1_noi = Unset /\ going_in_cap = Unset /\ annual_depreciation = Unset
    /\ cash_flow_data = <<>> /\ current_loan_balance = Unset
    /\ final_noi = Unset /\ sale_price = Unset /\ sale_costs = Unset
    /\ remaining_balance = Unset /\ net_sale_proceeds = Unset
    /\ cash_flows = <<>> /\ irr = Unset /\ npv = Unset
    /\ equity_multiple = Unset /\ avg_coc = Unset
    /\ clicked = [mode |-> "none", var1 |-> "none", var2 |-> "none", metric |-> "none"]
    /\ test_range = <<>> /\ one_results = <<>> /\ sensitivity_level = "none"
    /\ heat_results = <<>> /\ tornado_data = <<>>
    /\ \E deal \in SoundDeals \cup DefectiveDeals :
          metrics = deal[1] /\ property_data = deal[2]
    /\ total_score = -1 /\ score_breakdown = <<>>
    /\ grade = "none" /\ rating = "none" /\ recommendation = <<>>
    /\ deals_file = <<>> /\ load_cache = {} /\ type_cache = <<>> /\ cf_cache = <<>>
    /\ type_deals = <<>> /\ saver = <<>>

\* total_score, score_breakdown, grade, rating = calculate_deal_score(...)
\* (line 1509)
Score ==
    /\ pc = "score"
    /\ \E result \in { calculate_deal_score(metrics, property_data) } :
          /\ total_score' = result.total_score
          /\ score_breakdown' = result.score_breakdown
          /\ grade' = result.grade
          /\ rating' = result.rating
    /\ pc' = "scored"
    /\ UNCHANGED <<metrics, property_data, recommendation, inp, exc, acqVars, projVars,
                   final_noi, termVars, retVars, sensVars, storeVars, cf_cache>>

\* recommendation = generate_recommendation(...) (line 1512)
Recommend ==
    /\ pc = "scored"
    /\ recommendation' =
          generate_recommendation(total_score, score_breakdown, metrics, property_data)
    /\ pc' = "recommended"
    /\ UNCHANGED <<metrics, property_data, total_score, score_breakdown, grade, rating,
                   inp, exc, acqVars, projVars, final_noi, termVars, retVars, sensVars,
                   storeVars, cf_cache>>

SpecScore == InitScore /\ [][Score \/ Recommend]_vars

\* calculate_deal_score has computed a score from the inputs: it returned
\* the breakdown of the five categories
Computed == pc # "score" /\ score_breakdown # <<>>

\* the cap of every category
Caps ==
    << <<"Returns (IRR/EM)", 30>>, <<"Value Creation (NPV)", 20>>, <<"Cash Flow Strength", 20>>,
       <<"Market Positioning", 15>>, <<"Risk Profile", 15>> >>

IrrPoints == score_breakdown[1].score - EmScore(Get(metrics, "equity_multiple", One))

\* the IRR calculate_deal_score has read
IrrRead == Get(metrics, "irr", Zero)

GradeMatches(total, letter) ==
    /\ total >= 95 => letter = "A+"
    /\ (total >= 90 /\ total < 95) => letter = "A"
    /\ (total >= 85 /\ total < 90) => letter = "A-"
    /\ (total >= 80 /\ total < 85) => letter = "B+"
    /\ (total >= 75 /\ total < 80) => letter = "B"
    /\ (total >= 70 /\ total < 75) => letter = "B-"
    /\ (total >= 65 /\ total < 70) => letter = "C+"
    /\ (total >= 60 /\ total < 65) => letter = "C"
    /\ (total >= 55 /\ total < 60) => letter = "C-"
    /\ total < 55 => letter = "F"

C18_ActionOfTotalAlone ==
    pc = "recommended" =>
        /\ total_score >= 85 => recommendation.action = "STRONG BUY"
        /\ (total_score >= 75 /\ total_score < 85) => recommendation.action = "BUY"
        /\ (total_score >= 65 /\ total_score < 75) => recommendation.action = "HOLD"
        /\ (total_score >= 55 /\ total_score < 65) => recommendation.action = "PASS"
        /\ total_score < 55 => recommendation.action = "HARD PASS"

\* an input is missing (a key is absent) or malformed (a value is no number)
Defective ==
    \/ \E key \in DOMAIN BaseMetrics : key \notin DOMAIN metrics
    \/ \E key \in DOMAIN BaseProperty : key \notin DOMAIN property_data
    \/ \E key \in DOMAIN metrics : metrics[key] = Malformed
    \/ \E key \in DOMAIN property_data \ {"property_type"} : property_data[key] = Malformed

\* C19: when an input of calculate_deal_score is missing or malformed, the
\* function raises nothing and returns the neutral default: the total 50,
\* the grade C and the rating Average.
C19_DefectGivesNeutral ==
    (pc # "score" /\ Defective) =>
        /\ exc = "none"
        /\ total_score = 50 /\ grade = "C" /\ rating = "Average"
        /\ score_breakdown = <<>>

\* the IRR handed to generate_recommendation is a number of at least 15
IrrAtLeast15 ==
    /\ "irr" \in DOMAIN metrics
    /\ metrics.irr # Malformed
    /\ FGe(metrics.irr, F(15))

\* C20: whenever the IRR is at least 15 %, the strengths generate_recommendation
\* returns contain the IRR strength, whatever the scores of the five
\* categories are.
C20_IrrAlwaysAStrength ==
    (pc = "recommended" /\ IrrAtLeast15) =>
        \E k \in 1..Len(recommendation.strengths) :
            recommendation.strengths[k] = "Superior IRR"

\* ------------------------------------------------------------------------
\* Saved deals (lines 726-758), the sidebar that lists them (lines 851-886)
\* and the SAVE DEAL button (lines 1311-1352)
\* ------------------------------------------------------------------------

\* load_deals_from_file() under st.cache_data(ttl=1): the cached value if
\* there is one, the content of the file otherwise; the value is cached
load_deals_from_file(cache) == IF cache # {} THEN CHOOSE deals \in cache : TRUE ELSE deals_file

\* get_deals_by_type(property_type) under st.cache_data(ttl=1): the cached
\* value of the type if there is one, the deals of the type among the loaded
\* ones otherwise
get_deals_by_type(property_type, cache, deals) ==
    IF property_type \in DOMAIN cache THEN cache[property_type]
    ELSE [name \in {n \in DOMAIN deals : deals[n].property_type = property_type} |->
              deals[name]]

\* deal_data of the SAVE DEAL button (lines 1312-1348); a key whose value is
\* None (units of an office, square_feet of a house) is left out
deal_data(property_name) ==
    LET property == inp.property
        common ==
            [property_name |-> property_name, property_type |-> property.property_type,
             purchase_price |-> inp.purchase_price, closing_costs |-> inp.closing_costs,
             rent_growth |-> inp.rent_growth, vacancy |-> inp.vacancy,
             opex_growth |-> inp.opex_growth, management_fee |-> inp.management_fee,
             loan_to_value |-> inp.loan_to_value, interest_rate |-> inp.interest_rate,
             amortization |-> inp.amortization, io_period |-> inp.io_period,
             holding_period |-> inp.holding_period, exit_cap_rate |-> inp.exit_cap_rate,
             selling_costs |-> inp.selling_costs, discount_rate |-> inp.discount_rate,
             irr |-> irr, equity_multiple |-> equity_multiple, npv |-> npv,
             going_in_cap |-> going_in_cap]
    IN  IF property.property_type = "Single Family"
        THEN common @@ [units |-> property.units_or_sf, sf_rent |-> property.unit_rents[1],
                        opex_total |-> property.opex_per_unit_or_sf,
                        capex_total |-> property.capex_per_unit_or_sf]
        ELSE IF property.property_type = "Multifamily"
        THEN common @@ [units |-> property.units_or_sf, unit_rents |-> property.unit_rents,
                        opex_per_unit |-> property.opex_per_unit_or_sf,
                        capex_per_unit |-> property.capex_per_unit_or_sf]
        ELSE common @@ [square_feet |-> property.units_or_sf,
                        rent_per_sf |-> property.rent_per_sf,
                        opex_per_sf |-> property.opex_per_unit_or_sf,
                        capex_per_sf |-> property.capex_per_unit_or_sf]

\* st.rerun(), or the run an interaction with the page starts: the script
\* runs from the top with the widgets at their values and the pressed button
NewRun(assumptions, button) ==
    /\ inp' = assumptions
    /\ clicked' = button
    /\ pc' = "sidebar"
    /\ exc' = "none"
    /\ total_acquisition' = Unset /\ loan_amount' = Unset /\ equity_required' = Unset
    /\ year_1_noi' = Unset /\ going_in_cap' = Unset /\ annual_depreciation' = Unset
    /\ cash_flow_data' = <<>> /\ current_loan_balance' = Unset
    /\ final_noi' = Unset /\ sale_price' = Unset /\ sale_costs' = Unset
    /\ remaining_balance' = Unset /\ net_sale_proceeds' = Unset
    /\ cash_flows' = <<>> /\ irr' = Unset /\ npv' = Unset
    /\ equity_multiple' = Unset /\ avg_coc' = Unset
    /\ test_range' = <<>> /\ one_results' = <<>> /\ sensitivity_level' = "none"
    /\ heat_results' = <<>> /\ tornado_data' = <<>>
    /\ UNCHANGED <<scoreVars, cf_cache>>

\* the user moves the tax slider, presses the load or the delete button of a
\* listed deal, or presses SAVE DEAL with a name in the box
Interact ==
    /\ pc = "ready"
    /\ clicked.mode = "none"
    /\ \/ \E tax_rate \in {Zero, F(25)} \ {inp.tax_rate} :
             NewRun([inp EXCEPT !.tax_rate = tax_rate], clicked)
       \/ \E mode \in {"load", "delete"} :
          \E property_type \in DOMAIN type_deals :
          \E name \in DOMAIN type_deals[property_type] :
             NewRun(inp, [mode |-> mode, var1 |-> name, var2 |-> property_type,
                          metric |-> "none"])
       \/ \E name \in {"A", "B"} :
             NewRun(inp, [mode |-> "save", var1 |-> name, var2 |-> "none",
                          metric |-> "none"])
    /\ UNCHANGED storeVars

\* the button of a listed deal was pressed and the sidebar of this run
\* renders it again
Pressed(mode) ==
    /\ clicked.mode = mode
    /\ load_deals_from_file(load_cache) # <<>>
    /\ clicked.var1 \in DOMAIN get_deals_by_type(clicked.var2, type_cache,
                                                load_deals_from_file(load_cache))

\* the property types the sidebar has listed, in its order (line 856), when
\* it reaches the one given
TypesUpTo(property_type) ==
    LET order == <<"Single Family", "Multifamily", "Office", "Retail">>
    IN  {order[k] : k \in {j \in 1..4 : \E i \in j..4 : order[i] = property_type}}

\* the sidebar (lines 851-886) with no button of it pressed
Sidebar ==
    /\ pc = "sidebar"
    /\ ~Pressed("load") /\ ~Pressed("delete")
    /\ \E all_deals \in {load_deals_from_file(load_cache)} :
          /\ load_cache' = {all_deals}
          /\ IF all_deals # <<>>
             THEN /\ type_cache' = [t \in DOMAIN type_cache \cup TypesUpTo("Retail") |->
                                       get_deals_by_type(t, type_cache, all_deals)]
                  /\ type_deals' = [t \in TypesUpTo("Retail") |-> type_cache'[t]]
             ELSE /\ type_deals' = <<>>
                  /\ UNCHANGED type_cache
    /\ pc' = "inputs"
    /\ UNCHANGED <<deals_file, saver, cf_cache, scoreVars, inp, exc, clicked, acqVars, projVars,
                   final_noi, termVars, retVars, test_range, one_results, sensitivity_level,
                   heat_results, tornado_data>>

\* the load button of a listed deal (lines 863-876): every key of the deal
\* but saved_date, irr, equity_multiple, npv, going_in_cap and unit_rents is
\* written to the widget of its name, the unit rents to the rent widgets, and
\* the script runs again; the widgets of the tax rate and of the building
\* value have no key in the deal and keep their values
LoadDeal ==
    /\ pc = "sidebar"
    /\ Pressed("load")
    /\ \E all_deals \in {load_deals_from_file(load_cache)} :
       \E deal \in {get_deals_by_type(clicked.var2, type_cache, all_deals)[clicked.var1]} :
          /\ load_cache' = {all_deals}
          /\ type_cache' = [t \in DOMAIN type_cache \cup TypesUpTo(clicked.var2) |->
                               get_deals_by_type(t, type_cache, all_deals)]
          /\ NewRun([property |->
                        [property_type |-> deal.property_type,
                         units_or_sf |-> IF deal.property_type \in Residential
                                         THEN deal.units ELSE deal.square_feet,
                         unit_rents |-> IF deal.property_type = "Single Family"
                                        THEN <<deal.sf_rent>>
                                        ELSE IF deal.property_type = "Multifamily"
                                        THEN deal.unit_rents ELSE <<>>,
                         rent_per_sf |-> IF deal.property_type \in Residential
                                         THEN Zero ELSE deal.rent_per_sf,
                         opex_per_unit_or_sf |->
                             IF deal.property_type = "Single Family" THEN deal.opex_total
                             ELSE IF deal.property_type = "Multifamily" THEN deal.opex_per_unit
                             ELSE deal.opex_per_sf,
                         capex_per_unit_or_sf |->
                             IF deal.property_type = "Single Family" THEN deal.capex_total
                             ELSE IF deal.property_type = "Multifamily" THEN deal.capex_per_unit
                             ELSE deal.capex_per_sf],
                     purchase_price |-> deal.purchase_price,
                     closing_costs |-> deal.closing_costs,
                     rent_growth |-> deal.rent_growth, vacancy |-> deal.vacancy,
                     opex_growth |-> deal.opex_growth,
                     management_fee |-> deal.management_fee,
                     loan_to_value |-> deal.loan_to_value,
                     interest_rate |-> deal.interest_rate,
                     amortization |-> deal.amortization, io_period |-> deal.io_period,
                     holding_period |-> deal.holding_period,
                     exit_cap_rate |-> deal.exit_cap_rate,
                     selling_costs |-> deal.selling_costs,
                     discount_rate |-> deal.discount_rate,
                     tax_rate |-> inp.tax_rate,
                     building_value_pct |-> inp.building_value_pct],
                    [mode |-> "none", var1 |-> "none", var2 |-> "none", metric |-> "none"])
    /\ UNCHANGED <<deals_file, type_deals, saver>>

\* the delete button of a listed deal (lines 882-884) and
\* delete_deal_from_file (lines 744-753)
DeleteDeal ==
    /\ pc = "sidebar"
    /\ Pressed("delete")
    /\ \E all_deals \in {load_deals_from_file(load_cache)} :
          /\ type_cache' = [t \in DOMAIN type_cache \cup TypesUpTo(clicked.var2) |->
                               get_deals_by_type(t, type_cache, all_deals)]
          /\ IF clicked.var1 \in DOMAIN all_deals
             THEN /\ deals_file' = [name \in DOMAIN all_deals \ {clicked.var1} |->
                                       all_deals[name]]
                  /\ load_cache' = {}
             ELSE /\ load_cache' = {all_deals}
                  /\ UNCHANGED deals_file
    /\ NewRun(inp, [mode |-> "none", var1 |-> "none", var2 |-> "none", metric |-> "none"])
    /\ UNCHANGED <<type_deals, saver>>

\* the SAVE DEAL button (lines 1311-1350): deal_data is built and
\* save_deal_to_file is called
SaveDeal ==
    /\ pc = "ready"
    /\ clicked.mode = "save"
    /\ saver' = [s1 |-> [step |-> "load", name |-> clicked.var1,
                         data |-> deal_data(clicked.var1), deals |-> <<>>]]
    /\ pc' = "saving"
    /\ UNCHANGED <<deals_file, load_cache, type_cache, type_deals, cf_cache, scoreVars, inp,
                   exc, acqVars, projVars, final_noi, termVars, retVars, sensVars>>

\* save_deal_to_file: deals = load_deals_from_file(); deals[deal_name] =
\* deal_data (lines 736-737)
SaveLoad(session) ==
    /\ session \in DOMAIN saver
    /\ saver[session].step = "load"
    /\ \E deals \in {load_deals_from_file(load_cache)} :
          /\ load_cache' = {deals}
          /\ saver' = [saver EXCEPT ![session].step = "write",
                                    ![session].deals =
                                        (saver[session].name :> saver[session].data) @@ deals]
    /\ UNCHANGED <<deals_file, type_cache, type_deals, cf_cache, scoreVars, inp, pc, exc,
                   acqVars, projVars, final_noi, termVars, retVars, sensVars>>

\* save_deal_to_file: json.dump(deals, f) (lines 738-739)
SaveWrite(session) ==
    /\ session \in DOMAIN saver
    /\ saver[session].step = "write"
    /\ deals_file' = saver[session].deals
    /\ saver' = [saver EXCEPT ![session].step = "clear"]
    /\ UNCHANGED <<load_cache, type_cache, type_deals, cf_cache, scoreVars, inp, pc, exc,
                   acqVars, projVars, final_noi, termVars, retVars, sensVars>>

\* save_deal_to_file: load_deals_from_file.clear() (line 741)
SaveClear(session) ==
    /\ session \in DOMAIN saver
    /\ saver[session].step = "clear"
    /\ load_cache' = {}
    /\ saver' = [saver EXCEPT ![session].step = "done"]
    /\ UNCHANGED <<deals_file, type_cache, type_deals, cf_cache, scoreVars, inp, pc, exc,
                   acqVars, projVars, final_noi, termVars, retVars, sensVars>>

\* st.success and st.rerun() after save_deal_to_file (lines 1351-1352)
Saved ==
    /\ pc = "saving"
    /\ saver.s1.step = "done"
    /\ saver' = <<>>
    /\ NewRun(inp, [mode |-> "none", var1 |-> "none", var2 |-> "none", metric |-> "none"])
    /\ UNCHANGED <<deals_file, load_cache, type_cache, type_deals>>

\* more than a second passes: the cached values of load_deals_from_file and
\* of get_deals_by_type expire (ttl=1)
Expire ==
    /\ load_cache # {} \/ type_cache # <<>>
    /\ load_cache' = {}
    /\ type_cache' = <<>>
    /\ UNCHANGED <<deals_file, type_deals, saver, cf_cache, scoreVars, inp, pc, exc,
                   acqVars, projVars, final_noi, termVars, retVars, sensVars>>

\* one session: a levered multifamily or office deal held for two years,
\* taxed or not
InitSession ==
    Start({ a \in Assumptions :
              /\ a.property.property_type \in {"Multifamily", "Office"}
              /\ a.closing_costs # Zero /\ ~IsZero(a.loan_to_value)
              /\ ~IsZero(a.interest_rate) /\ ~IsZero(a.exit_cap_rate)
              /\ a.amortization = 2 /\ a.io_period = 0 /\ a.holding_period = 2 })

NextSession ==
    \/ Next \/ Interact \/ Sidebar \/ LoadDeal \/ DeleteDeal \/ SaveDeal
    \/ (\E session \in DOMAIN saver : SaveLoad(session))
    \/ (\E session \in DOMAIN saver : SaveWrite(session))
    \/ (\E session \in DOMAIN saver : SaveClear(session))
    \/ Saved \/ Expire

SpecSession == InitSession /\ [][NextSession]_vars

\* ------------------------------------------------------------------------
\* Properties of the saved deals and of the memoized projection
\* ------------------------------------------------------------------------

\* the stored fields of a record that are assumptions, not results
AssumptionKeys(deal) ==
    DOMAIN deal \ {"property_name", "irr", "npv", "equity_multiple", "going_in_cap"}

\* the session's inputs agree with the record on every assumption it stores
Restores(deal) ==
    /\ DOMAIN deal = DOMAIN deal_data(deal.property_name)
    /\ \A key \in AssumptionKeys(deal) : deal_data(deal.property_name)[key] = deal[key]

\* C21: a saved record holds every assumption its stored metrics were
\* computed from: whenever a valuation has been computed from inputs that
\* agree with a saved record on every assumption the record stores (as after
\* loading it back), the computed irr, npv and equity_multiple are the
\* stored ones
C21_RecordReproducesMetrics ==
    (pc = "ready" /\ exc = "none") =>
        \A name \in DOMAIN deals_file :
            Restores(deals_file[name]) =>
                /\ deals_file[name].irr = irr
                /\ deals_file[name].npv = npv
                /\ deals_file[name].equity_multiple = equity_multiple

\* the table a computation of calculate_cash_flows from the present
\* arguments produces, never looking at the cache
RECURSIVE FreshRows(_, _, _)
FreshRows(year, balance, rows) ==
    IF year > inp.holding_period THEN rows
    ELSE LET loan == LoanYear(year, balance)
             ds == calculate_debt_service(year, loan_amount, inp.interest_rate,
                                          inp.amortization, inp.io_period)
         IN  FreshRows(year + 1, loan[1],
                       Append(rows, Row(year, OperatingYear(year), ds, loan[2])))

\* the projection of the present run is complete
Projected == pc \in {"project", "terminal", "returns", "ready"} /\ Len(cash_flow_data) = inp.holding_period

\* the flows the returns are computed from (lines 1285-1290), taken from a
\* table
FlowsOf(rows) ==
    AddToLast(<<FNeg(equity_required)>> \o
                  [k \in 1..Len(rows) |->
                      IF FGt(inp.tax_rate, Zero) THEN rows[k].ATCF ELSE rows[k].BTCF],
              net_sale_proceeds)

\* C22: the table of a run, computed or served from the memoization of
\* calculate_cash_flows, is the table a fresh computation from the same
\* arguments produces, and so is the table the cache holds for these
\* arguments; the irr and the npv of the run are the ones of the fresh table
C22_CachedEqualsFresh ==
    /\ Projected =>
          /\ cash_flow_data = FreshRows(1, loan_amount, <<>>)
          /\ CacheKey \in DOMAIN cf_cache => cf_cache[CacheKey] = cash_flow_data
    /\ (pc = "ready" /\ exc = "none") =>
          \E flows \in {FlowsOf(FreshRows(1, loan_amount, <<>>))} :
          \E solved \in {npf_irr(flows)} :
              /\ irr = IF IsRaised(solved) THEN Zero ELSE FMul(solved, Hundred)
              /\ npv = npf_npv(Pct(inp.discount_rate), flows)

\* C22 witness: the table of a taxed run was served from the cache (the loop
\* that tracks the loan balance did not run)
C22_Witness ==
    /\ Projected
    /\ current_loan_balance = loan_amount
    /\ inp.amortization > inp.io_period
    /\ FGt(inp.tax_rate, Zero)
    /\ FGt(loan_amount, Zero)
    /\ \E other \in DOMAIN cf_cache : other # CacheKey

\* C23: in every row of the table, OpEx is the OpEx of year 1 grown by
\* opex_growth for year - 1 years, and CapEx is the CapEx of year 1: the
\* reserve entered for a single family house, the reserve per unit or per
\* square foot times the units or the area otherwise
C23_OpexGrowsCapexFlat ==
    \A k \in 1..Len(cash_flow_data) :
        /\ cash_flow_data[k].OpEx =
               FMul(cash_flow_data[1].OpEx, FPow(FAdd(One, FDiv(inp.opex_growth, Hundred)), k - 1))
        /\ cash_flow_data[k].CapEx = cash_flow_data[1].CapEx
        /\ cash_flow_data[k].CapEx =
               IF inp.property.property_type = "Single Family"
               THEN inp.property.capex_per_unit_or_sf
               ELSE FMul(inp.property.capex_per_unit_or_sf, F(inp.property.units_or_sf))

\* C23 witness: the third year of a multifamily property whose operating
\* expenses have grown and whose reserve is per unit
C23_Witness ==
    /\ Len(cash_flow_data) = 3
    /\ inp.property.property_type = "Multifamily"
    /\ inp.property.units_or_sf > 1
    /\ FGt(cash_flow_data[3].OpEx, cash_flow_data[2].OpEx)
    /\ FGt(cash_flow_data[2].OpEx, cash_flow_data[1].OpEx)
    /\ FGt(cash_flow_data[3].CapEx, inp.property.capex_per_unit_or_sf)

\* a loan with positive principal, no interest and an amortization longer
\* than the interest-only period has been sized
ZeroInterestLoan ==
    /\ pc # "inputs"
    /\ FGt(loan_amount, Zero)
    /\ IsZero(inp.interest_rate)
    /\ inp.amortization > inp.io_period

\* C24: for a loan with positive principal, interest_rate = 0 and
\* amortization > io_period, calculate_debt_service of every year after the
\* interest-only period, the monthly schedule of that year and
\* calc_remaining_balance are finite, and the run does not stop with a
\* ZeroDivisionError
C24_ZeroInterestFinite ==
    ZeroInterestLoan =>
        /\ exc # "ZeroDivisionError"
        /\ \A year \in (inp.io_period + 1)..inp.holding_period :
              /\ IsFinite(calculate_debt_service(year, loan_amount, inp.interest_rate,
                                                 inp.amortization, inp.io_period))
              /\ IsFinite(LoanYear(year, loan_amount)[1])
        /\ IsFinite(calc_remaining_balance(loan_amount, inp.interest_rate, inp.amortization,
                                           inp.io_period, inp.holding_period))

\* C25: for a loan that amortizes (amortization > io_period), in every
\* projection year after the amortization term, when the loan has been
\* repaid, the debt service of the row is 0 and its BTCF is NOI - CapEx
C25_NoDebtServiceAfterPayoff ==
    \A k \in 1..Len(cash_flow_data) :
        (inp.amortization > inp.io_period /\ k > inp.amortization) =>
            /\ IsZero(cash_flow_data[k].DebtService)
            /\ cash_flow_data[k].BTCF = FSub(cash_flow_data[k].NOI, cash_flow_data[k].CapEx)

\* the deals of one type that are in the deals file
FileDeals(property_type) ==
    [name \in {n \in DOMAIN deals_file : deals_file[n].property_type = property_type} |->
        deals_file[name]]

\* C26: when no save is in progress, a call of get_deals_by_type(t) returns
\* exactly the deals of type t that are in the deals file, whatever the
\* caches hold: a deleted deal is not returned and a saved one is
C26_TypeListMatchesFile ==
    saver = <<>> =>
        \A property_type \in TypesUpTo("Retail") :
            get_deals_by_type(property_type, type_cache, load_deals_from_file(load_cache))
                = FileDeals(property_type)

\* ------------------------------------------------------------------------
\* Two sessions save at the same time.  Streamlit runs each session's script
\* in its own thread; the deals file and the cache of load_deals_from_file
\* are shared by the sessions of the server.
\* ------------------------------------------------------------------------
InitSave ==
    /\ inp = ExampleDeal
    /\ pc = "saving"
    /\ exc = "none"
    /\ total_acquisition = Unset /\ loan_amount = Unset /\ equity_required = Unset
    /\ year_1_noi = Unset /\ going_in_cap = Unset /\ annual_depreciation = Unset
    /\ cash_flow_data = <<>> /\ current_loan_balance = Unset
    /\ final_noi = Unset /\ sale_price = Unset /\ sale_costs = Unset
    /\ remaining_balance = Unset /\ net_sale_proceeds = Unset
    /\ cash_flows = <<>> /\ irr = Unset /\ npv = Unset
    /\ equity_multiple = Unset /\ avg_coc = Unset
    /\ clicked = [mode |-> "save", var1 |-> "none", var2 |-> "none", metric |-> "none"]
    /\ test_range = <<>> /\ one_results = <<>> /\ sensitivity_level = "none"
    /\ heat_results = <<>> /\ tornado_data = <<>>
    /\ NoScore
    /\ cf_cache = <<>> /\ type_cache = <<>> /\ type_deals = <<>>
    /\ \E stored \in SUBSET {"A", "B", "C"} :
          deals_file = [name \in stored |-> [property_name |-> name, property_type |-> "Office"]]
    /\ load_cache \in {{}, {deals_file}}
    /\ \E first \in {"A", "B", "C"} :
       \E second \in {"A", "B", "C"} \ {first} :
       \E types \in {"Single Family", "Multifamily", "Office", "Retail"} \X {"Multifamily", "Retail"} :
          saver = [s1 |-> [step |-> "load", name |-> first,
                           data |-> [property_name |-> first, property_type |-> types[1]],
                           deals |-> <<>>],
                   s2 |-> [step |-> "load", name |-> second,
                           data |-> [property_name |-> second, property_type |-> types[2]],
                           deals |-> <<>>]]

SpecSave ==
    InitSave /\ [][\/ (\E session \in DOMAIN saver : SaveLoad(session))
                   \/ (\E session \in DOMAIN saver : SaveWrite(session))
                   \/ (\E session \in DOMAIN saver : SaveClear(session))
                   \/ Expire]_vars

\* both sessions have returned from save_deal_to_file
BothSaved == \A session \in DOMAIN saver : saver[session].step = "done"

\* C27: when two sessions have saved two different names concurrently, the
\* deals file holds both deals and every deal that was stored before (the
\* other deals a session loaded), under every interleaving of their steps
C27_NoLostUpdate ==
    (pc = "saving" /\ DOMAIN saver = {"s1", "s2"} /\ BothSaved) =>
        /\ \A session \in DOMAIN saver :
              /\ saver[session].name \in DOMAIN deals_file
              /\ deals_file[saver[session].name] = saver[session].data
        /\ \A name \in DOMAIN saver.s1.deals \ {saver.s1.name, saver.s2.name} :
              name \in DOMAIN deals_file /\ deals_file[name] = saver.s1.deals[name]

\* the grades that go with an action: the ones the grade table gives to the
\* totals the action is chosen for
GradesOfAction(action) ==
    IF action = "STRONG BUY" THEN {"A+", "A", "A-"}
    ELSE IF action = "BUY" THEN {"B+", "B"}
    ELSE IF action = "HOLD" THEN {"B-", "C+"}
    ELSE IF action = "PASS" THEN {"C", "C-"}
    ELSE IF action = "HARD PASS" THEN {"F"}
    ELSE {}

\* C28: every (total_score, grade, rating) calculate_deal_score returns, the
\* one of the error path included, carries the grade and the rating the
\* grade table assigns to the total, and the action generate_recommendation
\* derives from the score is one that goes with the grade
C28_TripleConsistent ==
    /\ pc # "score" => <<grade, rating>> = GradeOf(total_score)
    /\ pc = "recommended" => grade \in GradesOfAction(recommendation.action)

\* the variables the sensitivity loops read a tested value of and never use
Unused == {"Vacancy Rate", "OpEx Growth Rate"}

C30_TwoWayDebtServiceOneRule ==
    (clicked.mode = "two-way" /\ "Interest Rate" \in {clicked.var1, clicked.var2}
                              /\ FGt(loan_amount, Zero)) =>
        \A k \in 1..7 :
            \E r \in {var_ranges("Interest Rate")[k]} :
            \E one_rule \in {calculate_debt_service(1, loan_amount, r, inp.amortization,
                                                    inp.io_period)} :
                FLe(FAbs(FSub(TwoWayDebtService(r), one_rule)),
                    FMul(Dec(1, 6), FAbs(one_rule)))

====
